---- MODULE Spec2Model ----
(***************************************************************************)
(* A model of the ionic solana indexer core: the wire transaction decoder  *)
(* (rpc_transaction_converter.py), the conversion of a block's wrappers    *)
(* to RawTransaction records, the derived views of a RawTransaction        *)
(* (raw_transaction.py), the SPL token coder and the coder registry        *)
(* (coders/), and the transaction error field (transaction_errors.py).     *)
(*                                                                         *)
(* Python values are modelled as follows.                                  *)
(*   bytes          a sequence of numbers 0..255; Python's offset o reads  *)
(*                  element o + 1                                          *)
(*   str            a record [enc, name, val]: a literal ("unknown", "")   *)
(*                  is Str(name); the base58 / base64 text of a byte       *)
(*                  string b is B58(b) / B64(b)                            *)
(*   None           NoneVal for an optional str, <<>> against <<n>> for   *)
(*                  an optional int, an isNone field for an optional       *)
(*                  struct                                                 *)
(***************************************************************************)
EXTENDS Integers, Sequences, FiniteSets, TLC

VARIABLES
    tx_data,            \* SpecDecode: the payload handed to decode_transaction
    tx_src,             \* SpecDecode: the transaction the payload was encoded from
    decoded,            \* SpecDecode: what decode_transaction returned
    dpc,                \* SpecDecode: "ready" | "done"
    block,              \* Spec: the Block handed to convert_block_to_raw_transactions
    raw_transactions,   \* Spec: the list it returned
    raised,             \* Spec: whether the call raised
    bpc,                \* Spec: "ready" | "done"
    rtx,                \* SpecViews: a RawTransaction
    view,               \* SpecViews: the value the last property read returned
    vpc,                \* SpecViews: "idle" | the property that was read
    arg,                \* the argument of the call of a pure function; what a specification
                        \* remembers of its start (SpecEval, SpecShared, SpecSource)
    ret,                \* what the call returned; the first results (SpecEval), the locals
                        \* of the operations (SpecShared), the trace (SpecBytes)
    cpc,                \* "idle" | "ready" | the function called | the phase (SpecShared)
    coders,             \* SpecRegistry: CoderRegistry._coders
    program_to_coders,  \* SpecRegistry: CoderRegistry._program_to_coders
    rret,               \* SpecRegistry: what the last call of a lookup or parse returned
    registered,         \* SpecRegistry: the coders handed to register, in call order
    session,            \* SpecSource: SolanaRPCDataSource.session (0 is None)
    connected,          \* SpecSource: BaseDataSource._connected
    tasks               \* SpecSource: the coroutines that call the data source

vars == <<tx_data, tx_src, decoded, dpc, block, raw_transactions, raised, bpc,
          rtx, view, vpc, arg, ret, cpc, coders, program_to_coders, rret,
          registered,
         session, connected, tasks>>

decodeVars == <<tx_data, tx_src, decoded, dpc>>
blockVars == <<block, raw_transactions, raised, bpc>>
viewVars == <<rtx, view, vpc>>
callVars == <<arg, ret, cpc>>
registryVars == <<coders, program_to_coders, rret, registered>>
sourceVars == <<session, connected, tasks>>

\* no call of SpecVarint, SpecToken or SpecErrors is in progress
CallIdle == arg = <<>> /\ ret = <<>> /\ cpc = "idle"
\* the registry as CoderRegistry.__init__ leaves it
EmptyDict == [p \in {} |-> <<>>]
\* no data source is in use
SourceIdle == session = 0 /\ connected = FALSE /\ tasks = <<>>

RegistryEmpty ==
    coders = <<>> /\ program_to_coders = EmptyDict /\ rret = <<>> /\ registered = <<>>

-----------------------------------------------------------------------------
(* Strings and byte strings *)

Str(name) == [enc |-> "lit", name |-> name, val |-> <<>>]

\* base58.b58encode(b).decode('utf-8'): injective; the text of no 32- or
\* 64-byte string is one of the literals the code uses
B58(b) == [enc |-> "b58", name |-> "", val |-> b]

\* base64.b64encode(b).decode('utf-8'): injective, and the empty byte string
\* encodes to the empty string
B64(b) == IF b = <<>> THEN Str("") ELSE [enc |-> "b64", name |-> "", val |-> b]

\* base64.b64decode(s) of a string this model can hold: the bytes of a base64
\* text, nothing for the empty string, and "raise" (binascii.Error, incorrect
\* padding) for the one-character string "A"
B64DecodeRaises(s) == s.enc = "lit" /\ s.name # ""
B64Decode(s) == IF s.enc = "b64" THEN s.val ELSE <<>>

NoneVal == [enc |-> "none", name |-> "", val |-> <<>>]

\* data[a:b] of Python for 0 <= a <= b <= len(data)
Slice(data, a, b) == SubSeq(data, a + 1, b)

\* a byte string of n bytes, each of value v
Rep(n, v) == [k \in 1..n |-> v]

RECURSIVE Flatten(_)
Flatten(ss) == IF ss = <<>> THEN <<>> ELSE Head(ss) \o Flatten(Tail(ss))

-----------------------------------------------------------------------------
(* SolanaTransactionDecoder *)

SIG_LEN == 64
KEY_LEN == 32

\* decode_compact_u16 asking for one byte more than the length class has
decode_compact_u16_one_more(data, offset) ==
    IF offset >= Len(data) THEN <<0, offset>>
    ELSE LET first_byte == data[offset + 1] IN
         IF first_byte < 128 THEN <<first_byte, offset + 1>>
         ELSE IF first_byte < 192
              THEN IF offset + 2 >= Len(data) THEN <<0, offset>>
                   ELSE <<(first_byte % 128) * 256 + data[offset + 2], offset + 2>>
              ELSE IF offset + 3 >= Len(data) THEN <<0, offset>>
                   ELSE <<(first_byte % 64) * 65536 + data[offset + 2] * 256
                              + data[offset + 3], offset + 3>>

\* decode_compact_u16(data, offset) -> <<value, offset>>
decode_compact_u16(data, offset) ==
    IF offset >= Len(data) THEN <<0, offset>>
    ELSE LET first_byte == data[offset + 1] IN
         IF first_byte < 128 THEN <<first_byte, offset + 1>>
         ELSE IF first_byte < 192
              THEN IF offset + 1 >= Len(data) THEN <<0, offset>>
                   ELSE <<(first_byte % 128) * 256 + data[offset + 2], offset + 2>>
              ELSE IF offset + 2 >= Len(data) THEN <<0, offset>>
                   ELSE <<(first_byte % 64) * 65536 + data[offset + 2] * 256
                              + data[offset + 3], offset + 3>>

\* decode_pubkey(data, offset) -> <<pubkey, offset>>
decode_pubkey(data, offset) ==
    IF offset + KEY_LEN > Len(data) THEN <<Str("invalid_pubkey"), offset>>
    ELSE <<B58(Slice(data, offset, offset + KEY_LEN)), offset + KEY_LEN>>

AccountKey(pubkey, signer, writable, source) ==
    [pubkey |-> pubkey, signer |-> signer, writable |-> writable, source |-> source]

\* InstructionField: accounts is None when hasAccounts is FALSE; stackHeight is
\* <<>> for None and <<h>> for the number h; parsed is None
InstructionField(programId, accounts, hasAccounts, data, stackHeight) ==
    [programId |-> programId, accounts |-> accounts, hasAccounts |-> hasAccounts,
     data |-> data, stackHeight |-> stackHeight, parsed |-> NoneVal]

\* the signature loop: -> <<signatures, offset>>
RECURSIVE SignatureLoop(_, _, _, _, _)
SignatureLoop(tx_bytes, i, num_signatures, offset, signatures) ==
    IF i >= num_signatures \/ offset + SIG_LEN > Len(tx_bytes)
    THEN <<signatures, offset>>
    ELSE SignatureLoop(tx_bytes, i + 1, num_signatures, offset + SIG_LEN,
             Append(signatures, B58(Slice(tx_bytes, offset, offset + SIG_LEN))))

\* is_signer of account i
IsSigner(i, nrs) == i < nrs

IsWritableNoSignerGuard(i, nrs, nros, nrou, num_accounts) ==
    (i < nrs - nros) \/ (i < num_accounts - nrou)
\* is_writable of account i
IsWritable(i, nrs, nros, nrou, num_accounts) ==
    (i < nrs - nros) \/ (i >= nrs /\ i < num_accounts - nrou)

\* the account loop: -> <<account_keys, offset>>
RECURSIVE AccountLoop(_, _, _, _, _, _)
AccountLoop(tx_bytes, i, num_accounts, hdr, offset, account_keys) ==
    IF i >= num_accounts THEN <<account_keys, offset>>
    ELSE LET r == decode_pubkey(tx_bytes, offset) IN
         AccountLoop(tx_bytes, i + 1, num_accounts, hdr, r[2],
             Append(account_keys,
                 AccountKey(r[1], IsSigner(i, hdr[1]),
                            IsWritable(i, hdr[1], hdr[2], hdr[3], num_accounts),
                            "transaction")))

\* for j in range(num_account_indices): -> <<account_indices, offset>>
RECURSIVE IndexLoop(_, _, _, _, _)
IndexLoop(tx_bytes, j, num_account_indices, offset, account_indices) ==
    IF j >= num_account_indices THEN <<account_indices, offset>>
    ELSE IF offset < Len(tx_bytes)
         THEN IndexLoop(tx_bytes, j + 1, num_account_indices, offset + 1,
                  Append(account_indices, tx_bytes[offset + 1]))
         ELSE IndexLoop(tx_bytes, j + 1, num_account_indices, offset, account_indices)

\* program_id = account_addresses[i] if i < len(account_addresses) else "unknown"
ResolveProgram(account_addresses, program_id_index) ==
    IF program_id_index < Len(account_addresses)
    THEN account_addresses[program_id_index + 1]
    ELSE Str("unknown")

\* account_addrs: the addresses of the indices that are in range, the others
\* are left out
RECURSIVE ResolveAccounts(_, _)
ResolveAccounts(account_addresses, account_indices) ==
    IF account_indices = <<>> THEN <<>>
    ELSE LET idx == Head(account_indices)
             rest == ResolveAccounts(account_addresses, Tail(account_indices))
         IN IF idx < Len(account_addresses)
            THEN <<account_addresses[idx + 1]>> \o rest
            ELSE rest

\* the instruction loop: -> the list of InstructionField
RECURSIVE InstructionLoop(_, _, _, _, _, _)
InstructionLoop(tx_bytes, i, num_instructions, offset, account_addresses, instructions) ==
    IF i >= num_instructions \/ offset >= Len(tx_bytes) THEN instructions
    ELSE LET program_id_index == tx_bytes[offset + 1]
             nai == decode_compact_u16(tx_bytes, offset + 1)
             idx == IndexLoop(tx_bytes, 0, nai[1], nai[2], <<>>)
             dl == decode_compact_u16(tx_bytes, idx[2])
             fits == dl[2] + dl[1] <= Len(tx_bytes)
             instruction_data == IF fits THEN B64(Slice(tx_bytes, dl[2], dl[2] + dl[1]))
                                 ELSE Str("")
             offset2 == IF fits THEN dl[2] + dl[1] ELSE dl[2]
         IN InstructionLoop(tx_bytes, i + 1, num_instructions, offset2, account_addresses,
                Append(instructions,
                    InstructionField(ResolveProgram(account_addresses, program_id_index),
                                     ResolveAccounts(account_addresses, idx[1]), TRUE,
                                     instruction_data, <<1>>)))

DecodeResult(signatures, account_keys, instructions, recent_blockhash) ==
    [signatures |-> signatures, account_keys |-> account_keys,
     instructions |-> instructions, recent_blockhash |-> recent_blockhash]

\* decode_transaction(tx_data): the except clause turns the error of
\* b64decode into the empty result
decode_transaction(data) ==
    IF B64DecodeRaises(data) THEN DecodeResult(<<>>, <<>>, <<>>, Str(""))
    ELSE LET tx_bytes == B64Decode(data) IN
    IF Len(tx_bytes) < 1 THEN DecodeResult(<<>>, <<>>, <<>>, Str(""))
    ELSE LET sg == SignatureLoop(tx_bytes, 0, tx_bytes[1], 1, <<>>)
             o1 == sg[2]
         IN
    IF o1 + 3 > Len(tx_bytes) THEN DecodeResult(sg[1], <<>>, <<>>, Str(""))
    ELSE LET hdr == <<tx_bytes[o1 + 1], tx_bytes[o1 + 2], tx_bytes[o1 + 3]>>
             na == decode_compact_u16(tx_bytes, o1 + 3)
             ak == AccountLoop(tx_bytes, 0, na[1], hdr, na[2], <<>>)
             account_addresses == [k \in 1..Len(ak[1]) |-> ak[1][k].pubkey]
             o2 == ak[2]
             hasHash == o2 + KEY_LEN <= Len(tx_bytes)
             recent_blockhash == IF hasHash THEN B58(Slice(tx_bytes, o2, o2 + KEY_LEN))
                                 ELSE Str("")
             o3 == IF hasHash THEN o2 + KEY_LEN ELSE o2
             ni == decode_compact_u16(tx_bytes, o3)
         IN DecodeResult(sg[1], ak[1],
                InstructionLoop(tx_bytes, 0, ni[1], ni[2], account_addresses, <<>>),
                recent_blockhash)

-----------------------------------------------------------------------------
(* The wire format, for constructing payloads: a transaction is            *)
(* [sigs, hdr, keys, bh, ixs], sigs/keys/bh naming byte strings by one     *)
(* byte value, each ix [prog, accts, data].                                *)

EncodeInstruction(ix) ==
    <<ix.prog>> \o <<Len(ix.accts)>> \o ix.accts \o <<Len(ix.data)>> \o ix.data

EncodeTransaction(t) ==
    <<Len(t.sigs)>> \o Flatten([k \in 1..Len(t.sigs) |-> Rep(SIG_LEN, t.sigs[k])])
        \o t.hdr
        \o <<Len(t.keys)>> \o Flatten([k \in 1..Len(t.keys) |-> Rep(KEY_LEN, t.keys[k])])
        \o Rep(KEY_LEN, t.bh)
        \o <<Len(t.ixs)>> \o Flatten([k \in 1..Len(t.ixs) |-> EncodeInstruction(t.ixs[k])])

KeyAddr(k) == B58(Rep(KEY_LEN, k))

Tx(sigs, hdr, keys, ixs) == [sigs |-> sigs, hdr |-> hdr, keys |-> keys, bh |-> 9, ixs |-> ixs]
Ix(prog, accts, data) == [prog |-> prog, accts |-> accts, data |-> data]

-----------------------------------------------------------------------------
(* TransactionConverter *)

\* UiTokenAmount and TokenBalanceChange of raw_transaction.py; an amount is a
\* str of decimal digits, held as the sequence of its digits
TokenBalanceChange(accountIndex, mint, owner, programId, amount, decimals) ==
    [accountIndex |-> accountIndex, mint |-> mint, owner |-> owner, programId |-> programId,
     uiTokenAmount |-> [amount |-> amount, decimals |-> decimals]]

\* x or "" for an optional str x
OrEmpty(x) == IF x = NoneVal THEN Str("") ELSE x

\* x or 0 for an optional int x
OrZero(x) == IF x = <<>> THEN 0 ELSE x[1]

\* the list comprehension over the token balances of the meta: reading
\* tb.uiTokenAmount.amount raises AttributeError when uiTokenAmount is None
ConvertTokenBalances(tbs) ==
    [raises |-> \E k \in 1..Len(tbs) : tbs[k].uiTokenAmount.isNone,
     val |-> [k \in 1..Len(tbs) |->
                TokenBalanceChange(tbs[k].accountIndex, tbs[k].mint, OrEmpty(tbs[k].owner),
                                   OrEmpty(tbs[k].programId), tbs[k].uiTokenAmount.amount,
                                   tbs[k].uiTokenAmount.decimals)]]

\* the program id given to an inner instruction
InnerProgramId(ix, logMessages) == Str("unknown")

\* the conversion leaving out the instructions that have no stack height
ConvertInnerInstructionsDropping(innerInstructions, logMessages) ==
    [g \in 1..Len(innerInstructions) |->
        [index |-> innerInstructions[g].index,
         instructions |->
            LET kept == SelectSeq(innerInstructions[g].instructions,
                                  LAMBDA ix : ix.stackHeight # <<>>)
            IN [k \in 1..Len(kept) |->
                   InstructionField(InnerProgramId(kept[k], logMessages), <<>>, FALSE,
                                    kept[k].data, kept[k].stackHeight)]]]

\* the inner instructions of the meta, as InnerInstruction structs
ConvertInnerInstructions(innerInstructions, logMessages) ==
    [g \in 1..Len(innerInstructions) |->
        [index |-> innerInstructions[g].index,
         instructions |->
            [k \in 1..Len(innerInstructions[g].instructions) |->
                LET ix == innerInstructions[g].instructions[k] IN
                InstructionField(InnerProgramId(ix, logMessages), <<>>, FALSE,
                                 ix.data, ix.stackHeight)]]]

LookupKeys(addrs, writable) ==
    [k \in 1..Len(addrs) |-> AccountKey(addrs[k], FALSE, writable, "lookupTable")]

ExtendKeysReadonlyFirst(account_keys, meta) ==
    IF ~meta.isNone /\ ~meta.loadedAddresses.isNone
    THEN account_keys \o LookupKeys(meta.loadedAddresses.readonly, FALSE)
                      \o LookupKeys(meta.loadedAddresses.writable, TRUE)
    ELSE account_keys
\* extended_account_keys: the decoded keys, then the loaded writable
\* addresses, then the loaded readonly ones
ExtendKeys(account_keys, meta) ==
    IF ~meta.isNone /\ ~meta.loadedAddresses.isNone
    THEN account_keys \o LookupKeys(meta.loadedAddresses.writable, TRUE)
                      \o LookupKeys(meta.loadedAddresses.readonly, FALSE)
    ELSE account_keys

NoMetaOut ==
    [isNone |-> TRUE, computeUnitsConsumed |-> 0, fee |-> 0, innerInstructions |-> <<>>,
     logMessages |-> <<>>, postTokenBalances |-> <<>>, preTokenBalances |-> <<>>,
     statusOk |-> TRUE, err |-> NoneVal]

\* TransactionsMeta built from a meta that is not None (status is {"Ok": None}
\* when statusOk, {"Err": err} otherwise)
TransactionsMeta(meta) ==
    [isNone |-> FALSE,
     computeUnitsConsumed |-> OrZero(meta.computeUnitsConsumed),
     fee |-> meta.fee,
     innerInstructions |-> ConvertInnerInstructions(meta.innerInstructions, meta.logMessages),
     logMessages |-> meta.logMessages,
     postTokenBalances |-> ConvertTokenBalances(meta.postTokenBalances).val,
     preTokenBalances |-> ConvertTokenBalances(meta.preTokenBalances).val,
     statusOk |-> (meta.err = NoneVal),
     err |-> meta.err]

RawTransaction(id, slot, blockTime, version, d, accountKeys, meta) ==
    [id |-> id, slot |-> slot, blockTime |-> blockTime, version |-> version,
     signatures |-> d.signatures, accountKeys |-> accountKeys,
     instructions |-> d.instructions, recentBlockhash |-> d.recent_blockhash,
     meta |-> meta]

NoRecord == RawTransaction(0, 0, 0, 0, DecodeResult(<<>>, <<>>, <<>>, NoneVal), <<>>, NoMetaOut)

\* convert_transaction_wrapper -> [kind, rec]: kind is "record" (rec is
\* returned), "none" (None is returned) or "raise" (an exception leaves the
\* function: the attribute read of line 240 is outside its try block)
convert_transaction_wrapper(tx_wrapper, slot, block_time, tx_index) ==
    IF tx_wrapper.isNone THEN [kind |-> "raise", rec |-> NoRecord]
    ELSE IF Len(tx_wrapper.transaction) < 2 THEN [kind |-> "none", rec |-> NoRecord]
    ELSE LET d == decode_transaction(tx_wrapper.transaction[1])
             meta == tx_wrapper.meta
             extended_account_keys == ExtendKeys(d.account_keys, meta)
         IN IF /\ ~meta.isNone
               /\ \/ ConvertTokenBalances(meta.preTokenBalances).raises
                  \/ ConvertTokenBalances(meta.postTokenBalances).raises
            THEN [kind |-> "none", rec |-> NoRecord]
            ELSE [kind |-> "record",
                  rec |-> RawTransaction(tx_index, slot, OrZero(block_time),
                              OrZero(tx_wrapper.version), d, extended_account_keys,
                              IF meta.isNone THEN NoMetaOut ELSE TransactionsMeta(meta))]

\* the loop of convert_block_to_raw_transactions from transaction i on
RECURSIVE BlockLoopAbortOnError(_, _, _, _, _)
BlockLoopAbortOnError(transactions, i, slot, block_time, acc) ==
    IF i >= Len(transactions) THEN [raised |-> FALSE, list |-> acc]
    ELSE LET r == convert_transaction_wrapper(transactions[i + 1], slot, block_time, i) IN
         IF r.kind = "record"
         THEN BlockLoopAbortOnError(transactions, i + 1, slot, block_time, Append(acc, r.rec))
         ELSE [raised |-> r.kind = "raise", list |-> acc]

RECURSIVE BlockLoopPrepend(_, _, _, _, _)
BlockLoopPrepend(transactions, i, slot, block_time, acc) ==
    IF i >= Len(transactions) THEN [raised |-> FALSE, list |-> acc]
    ELSE LET r == convert_transaction_wrapper(transactions[i + 1], slot, block_time, i) IN
         BlockLoopPrepend(transactions, i + 1, slot, block_time,
                          IF r.kind = "record" THEN <<r.rec>> \o acc ELSE acc)

RECURSIVE BlockLoop(_, _, _, _, _)
BlockLoop(transactions, i, slot, block_time, acc) ==
    IF i >= Len(transactions) THEN [raised |-> FALSE, list |-> acc]
    ELSE LET r == convert_transaction_wrapper(transactions[i + 1], slot, block_time, i) IN
         BlockLoop(transactions, i + 1, slot, block_time,
                   IF r.kind = "record" THEN Append(acc, r.rec) ELSE acc)

\* convert_block_to_raw_transactions(block, slot) -> [raised, list]
convert_block_to_raw_transactions(b) == BlockLoop(b.transactions, 0, b.slot, b.blockTime, <<>>)

-----------------------------------------------------------------------------
(* RawTransaction: the derived views.  A view is [raises, val]: reading it *)
(* raises AttributeError when result.meta is None, and token_transfers     *)
(* raises IndexError for an accountIndex past the account keys.            *)

\* the sort key of all_instructions: stackHeight, float('inf') for None
KeyGreater(a, b) == b # <<>> /\ (a = <<>> \/ a[1] > b[1])

\* sorted(inner_instructions, key=...): Python's sort is stable
RECURSIVE SortedByStackHeight(_)
SortedByStackHeight(ixs) ==
    IF ixs = <<>> THEN <<>>
    ELSE LET n == Len(ixs)
             front == SortedByStackHeight(SubSeq(ixs, 1, n - 1))
             x == ixs[n]
             after == { p \in 1..Len(front) : KeyGreater(front[p].stackHeight, x.stackHeight) }
             at == IF after = {} THEN Len(front) + 1
                   ELSE CHOOSE p \in after : \A q \in after : p <= q
         IN SubSeq(front, 1, at - 1) \o <<x>> \o SubSeq(front, at, Len(front))

\* inner_instructions_map: the groups of an index; the dict keeps the last
GroupsAt(innerInstructions, i) ==
    { g \in 1..Len(innerInstructions) : innerInstructions[g].index = i }
MapGet(innerInstructions, i) ==
    LET gs == GroupsAt(innerInstructions, i) IN
    innerInstructions[CHOOSE g \in gs : \A h \in gs : h <= g].instructions

RECURSIVE AllInstructionsLoopOffByOne(_, _, _)
AllInstructionsLoopOffByOne(outer, innerInstructions, i) ==
    IF i >= Len(outer) THEN <<>>
    ELSE <<outer[i + 1]>>
         \o (IF GroupsAt(innerInstructions, i + 1) # {}
             THEN SortedByStackHeight(MapGet(innerInstructions, i + 1))
             ELSE <<>>)
         \o AllInstructionsLoopOffByOne(outer, innerInstructions, i + 1)
\* the loop of all_instructions from outer instruction i on
RECURSIVE AllInstructionsLoop(_, _, _)
AllInstructionsLoop(outer, innerInstructions, i) ==
    IF i >= Len(outer) THEN <<>>
    ELSE <<outer[i + 1]>>
         \o (IF GroupsAt(innerInstructions, i) # {}
             THEN SortedByStackHeight(MapGet(innerInstructions, i))
             ELSE <<>>)
         \o AllInstructionsLoop(outer, innerInstructions, i + 1)

all_instructions(r) ==
    IF r.meta.isNone THEN [raises |-> TRUE, val |-> <<>>]
    ELSE [raises |-> FALSE,
          val |-> AllInstructionsLoop(r.instructions, r.meta.innerInstructions, 0)]

is_successful_truthy(r) ==
    IF r.meta.isNone THEN [raises |-> TRUE, val |-> FALSE]
    ELSE [raises |-> FALSE, val |-> r.meta.err \in {NoneVal, Str("")}]
\* RawTransaction.is_successful -> [raises, val]
is_successful(r) ==
    IF r.meta.isNone THEN [raises |-> TRUE, val |-> FALSE]
    ELSE [raises |-> FALSE, val |-> r.meta.err = NoneVal]

\* int(s) of a nonempty str of decimal digits
RECURSIVE ParseInt(_)
ParseInt(digits) ==
    IF digits = <<>> THEN 0
    ELSE 10 * ParseInt(SubSeq(digits, 1, Len(digits) - 1)) + digits[Len(digits)]

\* the keys of the dict built from a list of token balances
BalanceKeys(accounts, tbs) ==
    { <<accounts[tbs[k].accountIndex + 1], tbs[k].mint>> : k \in 1..Len(tbs) }
\* dict.get(pair, "0"): the amount of the last entry of the pair
BalanceGet(accounts, tbs, pair) ==
    LET ks == { k \in 1..Len(tbs) : <<accounts[tbs[k].accountIndex + 1], tbs[k].mint>> = pair } IN
    IF ks = {} THEN <<0>>
    ELSE tbs[CHOOSE k \in ks : \A j \in ks : j <= k].uiTokenAmount.amount

TokenIndexError(r) ==
    \E tb \in { r.meta.preTokenBalances[k] : k \in 1..Len(r.meta.preTokenBalances) }
          \cup { r.meta.postTokenBalances[k] : k \in 1..Len(r.meta.postTokenBalances) } :
        tb.accountIndex >= Len(r.accountKeys)

\* all_pairs of a record on which token_transfers does not raise
AllPairs(r) ==
    LET accounts == [k \in 1..Len(r.accountKeys) |-> r.accountKeys[k].pubkey] IN
    BalanceKeys(accounts, r.meta.preTokenBalances)
        \cup BalanceKeys(accounts, r.meta.postTokenBalances)

\* the orders in which a set can be iterated
Orders(S) == { f \in [1..Cardinality(S) -> S] : \A a, b \in 1..Cardinality(S) : f[a] = f[b] => a = b }
IterationOrders(r) ==
    IF r.meta.isNone \/ TokenIndexError(r) THEN {<<>>} ELSE Orders(AllPairs(r))

\* the loop over all_pairs, iterated in the given order
RECURSIVE TransfersLoop(_, _, _, _)
TransfersLoop(accounts, pre, post, order) ==
    IF order = <<>> THEN <<>>
    ELSE LET pair == Head(order)
             pre_amount == ParseInt(BalanceGet(accounts, pre, pair))
             post_amount == ParseInt(BalanceGet(accounts, post, pair))
         IN (IF pre_amount # post_amount
             THEN <<[account |-> pair[1], mint |-> pair[2],
                     amount_change |-> post_amount - pre_amount,
                     pre_amount |-> pre_amount, post_amount |-> post_amount]>>
             ELSE <<>>)
            \o TransfersLoop(accounts, pre, post, Tail(order))

token_transfers_pre_only(r, order) ==
    IF r.meta.isNone \/ TokenIndexError(r) THEN [raises |-> TRUE, val |-> <<>>]
    ELSE LET accounts == [k \in 1..Len(r.accountKeys) |-> r.accountKeys[k].pubkey] IN
         [raises |-> FALSE,
          val |-> TransfersLoop(accounts, r.meta.preTokenBalances, r.meta.postTokenBalances,
                      SelectSeq(order, LAMBDA q : q \in BalanceKeys(accounts, r.meta.preTokenBalances)))]
\* token_transfers, the set all_pairs being iterated in the given order
token_transfers(r, order) ==
    IF r.meta.isNone \/ TokenIndexError(r) THEN [raises |-> TRUE, val |-> <<>>]
    ELSE LET accounts == [k \in 1..Len(r.accountKeys) |-> r.accountKeys[k].pubkey] IN
         [raises |-> FALSE,
          val |-> TransfersLoop(accounts, r.meta.preTokenBalances,
                                r.meta.postTokenBalances, order)]

-----------------------------------------------------------------------------
(* RawTransaction.native_transfers.  The parsed payload of an instruction  *)
(* is None (NoneVal), a str, or a dict [enc |-> "dict", type, info]; the   *)
(* key "type" or a str key of info that is absent is NoneVal, the key      *)
(* "lamports" that is absent is <<>>, and an absent "info" is NoInfo.      *)

Info(source, destination, newAccount, lamports) ==
    [source |-> source, destination |-> destination, newAccount |-> newAccount,
     lamports |-> lamports]
NoInfo == Info(NoneVal, NoneVal, NoneVal, <<>>)
ParsedDict(type, info) == [enc |-> "dict", type |-> type, info |-> info]

\* InstructionField.is_parsed()
is_parsed(ix) == ix.parsed.enc = "dict"

\* a or b of Python for two optional str
OrElse(a, b) == IF a \in {NoneVal, Str("")} THEN b ELSE a

\* the test of line 173 and of line 175 on one instruction
IsLamportTransfer(ix) ==
    /\ is_parsed(ix)
    /\ ix.parsed.type = Str("transfer")
    /\ ix.parsed.info.lamports # <<>>

\* the dict appended for instruction ix of the group of outer index index
NativeTransfer(ix, index) ==
    [from |-> ix.parsed.info.source,
     to |-> OrElse(ix.parsed.info.destination, ix.parsed.info.newAccount),
     amount |-> ix.parsed.info.lamports[1],
     instruction_index |-> index]

\* the transfers of the instructions of one group, from instruction m on
RECURSIVE GroupTransfers(_, _)
GroupTransfers(inner_ix, m) ==
    IF m > Len(inner_ix.instructions) THEN <<>>
    ELSE (IF IsLamportTransfer(inner_ix.instructions[m])
          THEN <<NativeTransfer(inner_ix.instructions[m], inner_ix.index)>>
          ELSE <<>>)
         \o GroupTransfers(inner_ix, m + 1)

\* native_transfers -> [raises, val]: AttributeError when the meta is None,
\* KeyError when info has "lamports" and no "source"
native_transfers(r) ==
    IF r.meta.isNone THEN [raises |-> TRUE, val |-> <<>>]
    ELSE LET groups == r.meta.innerInstructions IN
         IF \E g \in 1..Len(groups) : \E m \in 1..Len(groups[g].instructions) :
                /\ IsLamportTransfer(groups[g].instructions[m])
                /\ groups[g].instructions[m].parsed.info.source = NoneVal
         THEN [raises |-> TRUE, val |-> <<>>]
         ELSE [raises |-> FALSE,
               val |-> Flatten([g \in 1..Len(groups) |-> GroupTransfers(groups[g], 1)])]

\* the record after all_instructions has run on it: sorted() returns a new
\* list, and append and extend act on the list the property returns
RecordAfterSortInPlace(r) ==
    IF r.meta.isNone THEN r
    ELSE [r EXCEPT !.meta.innerInstructions =
            [g \in 1..Len(r.meta.innerInstructions) |->
                [r.meta.innerInstructions[g] EXCEPT
                    !.instructions = SortedByStackHeight(r.meta.innerInstructions[g].instructions)]]]
RecordAfterSorted(r) == r

-----------------------------------------------------------------------------
(* SpecDecode: one call of decode_transaction on a payload.  The payloads  *)
(* are the encodings of every header over 0..MaxHdr with 0..MaxAccounts    *)
(* account keys, every prefix of the encoding of two sample transactions,  *)
(* and a string that is not base64.                                        *)

MaxHdr == 2
MaxAccounts == 4

SampleTx == Tx(<<1>>, <<1, 0, 1>>, <<1, 2>>, <<Ix(1, <<0, 1>>, <<5, 6>>)>>)
SampleTxNoSig == Tx(<<>>, <<0, 0, 0>>, <<1>>, <<Ix(0, <<>>, <<>>), Ix(2, <<0, 1>>, <<7>>)>>)

HeaderTxs ==
    { Tx(<<1>>, <<a, b, c>>, [k \in 1..n |-> k], <<>>) :
        a \in 0..MaxHdr, b \in 0..MaxHdr, c \in 0..MaxHdr, n \in 0..MaxAccounts }

\* the payload of transaction t cut to its first c bytes
Payload(t, c) == B64(SubSeq(EncodeTransaction(t), 1, c))
FullPayload(t) == B64(EncodeTransaction(t))
NotBase64 == Str("A")

NoDecode == DecodeResult(<<>>, <<>>, <<>>, NoneVal)

\* no block is being converted and no view is being read
InitOthersIdleButCall ==
    /\ block = [transactions |-> <<>>, blockTime |-> <<>>, slot |-> 0]
    /\ raw_transactions = <<>>
    /\ raised = FALSE
    /\ bpc = "idle"
    /\ rtx = NoneVal
    /\ view = NoneVal
    /\ vpc = "idle"

InitOthersIdle == InitOthersIdleButCall /\ CallIdle /\ RegistryEmpty

InitDecode ==
    /\ \/ \E t \in HeaderTxs : tx_src = t /\ tx_data = FullPayload(t)
       \/ \E t \in {SampleTx, SampleTxNoSig} :
            \E c \in 0..Len(EncodeTransaction(t)) : tx_src = t /\ tx_data = Payload(t, c)
       \/ tx_src = SampleTx /\ tx_data = NotBase64
    /\ decoded = NoDecode
    /\ dpc = "ready"
    /\ InitOthersIdle
    /\ SourceIdle

DecodeTransaction ==
    /\ dpc = "ready"
    /\ decoded' = decode_transaction(tx_data)
    /\ dpc' = "done"
    /\ UNCHANGED <<tx_data, tx_src, blockVars, viewVars, callVars, registryVars>>
    /\ UNCHANGED sourceVars

NextDecode == DecodeTransaction

SpecDecode == InitDecode /\ [][NextDecode]_vars

-----------------------------------------------------------------------------
(* Spec: one call of convert_block_to_raw_transactions.  A block holds at  *)
(* most MaxTxs wrappers: any one wrapper of AllWrappers, placed anywhere   *)
(* among wrappers of CoreWrappers.                                         *)

MaxTxs == 2
MaxLoaded == 2

SeqsUpTo(S, n) == UNION { [1..k -> S] : k \in 0..n }

InsertAt(base, p, w) == SubSeq(base, 1, p) \o <<w>> \o SubSeq(base, p + 1, Len(base))

\* a transaction of a versioned message: its instructions name the loaded
\* addresses (indices 1 and 2 when one writable and one readonly address are
\* loaded) and indices past them
LutTx == Tx(<<2>>, <<1, 0, 0>>, <<1>>, <<Ix(1, <<0, 2, 3>>, <<7>>), Ix(3, <<1>>, <<>>)>>)

\* the lines of meta.logMessages: "Program <program> invoke [<depth>]", or
\* any other line
InvokeLine(k, depth) == [kind |-> "invoke", program |-> KeyAddr(k), depth |-> depth]
OtherLine == [kind |-> "other", program |-> Str(""), depth |-> 0]

TokenBalanceIn(accountIndex, mint, amount) ==
    [accountIndex |-> accountIndex, mint |-> KeyAddr(mint), owner |-> NoneVal,
     programId |-> KeyAddr(8),
     uiTokenAmount |-> [isNone |-> FALSE, amount |-> amount, decimals |-> 6]]
TokenBalanceNoAmount ==
    [accountIndex |-> 0, mint |-> KeyAddr(7), owner |-> NoneVal, programId |-> NoneVal,
     uiTokenAmount |-> [isNone |-> TRUE, amount |-> <<>>, decimals |-> 0]]

InnerIn(programIdIndex, accounts, data, stackHeight) ==
    [programIdIndex |-> programIdIndex, accounts |-> accounts, data |-> data,
     stackHeight |-> stackHeight]
GroupIn(index, instructions) == [index |-> index, instructions |-> instructions]

NoLoaded == [isNone |-> TRUE, writable |-> <<>>, readonly |-> <<>>]
Loaded(w, r) ==
    [isNone |-> FALSE, writable |-> [k \in 1..Len(w) |-> KeyAddr(w[k])],
     readonly |-> [k \in 1..Len(r) |-> KeyAddr(r[k])]]

MetaIn(err, loaded, inner, logs, pre, post) ==
    [isNone |-> FALSE, err |-> err, fee |-> 5000, computeUnitsConsumed |-> <<>>,
     loadedAddresses |-> loaded, innerInstructions |-> inner, logMessages |-> logs,
     preTokenBalances |-> pre, postTokenBalances |-> post]
MetaPlain == MetaIn(NoneVal, NoLoaded, <<>>, <<>>, <<>>, <<>>)
NoMetaIn == [MetaPlain EXCEPT !.isNone = TRUE]

\* a TransactionWrapper; src is the transaction the node serialized
Wrapper(payload, meta, src) ==
    [isNone |-> FALSE, transaction |-> <<payload, Str("base64")>>, meta |-> meta,
     version |-> <<0>>, src |-> src]
NoneWrapper == [Wrapper(Str(""), NoMetaIn, SampleTx) EXCEPT !.isNone = TRUE]

\* the payload of w is a proper prefix of the encoding of its transaction
Truncated(w) ==
    /\ ~w.isNone /\ Len(w.transaction) = 2
    /\ ~B64DecodeRaises(w.transaction[1])
    /\ Len(B64Decode(w.transaction[1])) < Len(EncodeTransaction(w.src))
WellFormed(w) ==
    /\ ~w.isNone /\ Len(w.transaction) = 2
    /\ w.transaction[1] = FullPayload(w.src)

TruncatedWrappers ==
    { Wrapper(Payload(SampleTx, c), MetaPlain, SampleTx) :
        c \in 0..(Len(EncodeTransaction(SampleTx)) - 1) }

LoadedWrappers ==
    { Wrapper(FullPayload(LutTx), MetaIn(NoneVal, Loaded(w, r), <<>>, <<>>, <<>>, <<>>), LutTx) :
        w \in SeqsUpTo({3, 4}, MaxLoaded), r \in SeqsUpTo({5, 6}, MaxLoaded) }

InnerSamples ==
    { <<GroupIn(0, <<InnerIn(1, <<0, 1>>, B64(<<1>>), hs[1]),
                     InnerIn(2, <<2>>, B64(<<2>>), hs[2]),
                     InnerIn(0, <<>>, B64(<<3>>), hs[3])>>)>> :
        hs \in { <<<<2>>, <<3>>, <<2>>>>, <<<<3>>, <<2>>, <<>>>>, <<<<2>>, <<4>>, <<3>>>> } }
      \cup { <<GroupIn(1, <<InnerIn(9, <<0>>, B64(<<4>>), <<>>), InnerIn(1, <<>>, Str(""), <<5>>)>>),
              GroupIn(0, <<>>),
              GroupIn(1, <<InnerIn(9, <<1>>, B64(<<5>>), <<2>>)>>)>> }
LogSamples ==
    { <<>>,
      <<InvokeLine(1, 1)>>,
      <<InvokeLine(1, 1), InvokeLine(2, 2), OtherLine>>,
      <<InvokeLine(1, 1), InvokeLine(2, 2), InvokeLine(3, 3), OtherLine, InvokeLine(4, 2)>> }
InnerWrappers ==
    { Wrapper(FullPayload(LutTx), MetaIn(NoneVal, Loaded(<<3>>, <<5>>), g, l, <<>>, <<>>), LutTx) :
        g \in InnerSamples, l \in LogSamples }

MetaSamples ==
    { NoMetaIn,
      MetaIn(Str("InstructionError"), NoLoaded, <<>>, <<>>, <<>>, <<>>),
      MetaIn(Str(""), NoLoaded, <<>>, <<>>, <<>>, <<>>),
      MetaIn(NoneVal, NoLoaded, <<>>, <<>>, <<TokenBalanceIn(1, 7, <<1, 0>>)>>,
             <<TokenBalanceIn(1, 7, <<2, 5>>), TokenBalanceIn(5, 7, <<3>>)>>),
      MetaIn(NoneVal, NoLoaded, <<>>, <<>>, <<TokenBalanceNoAmount>>, <<>>),
      MetaIn(NoneVal, NoLoaded, <<>>, <<>>, <<>>, <<TokenBalanceIn(0, 7, <<1>>), TokenBalanceNoAmount>>) }
MetaWrappers == { Wrapper(FullPayload(SampleTx), m, SampleTx) : m \in MetaSamples }

GoodWrapper == Wrapper(FullPayload(SampleTx), MetaPlain, SampleTx)
OtherWrappers ==
    { NoneWrapper,
      [GoodWrapper EXCEPT !.transaction = <<>>],
      [GoodWrapper EXCEPT !.transaction = <<FullPayload(SampleTx)>>],
      [GoodWrapper EXCEPT !.version = <<>>],
      Wrapper(NotBase64, MetaPlain, SampleTx) }

CoreWrappers ==
    { GoodWrapper,
      Wrapper(FullPayload(LutTx), MetaIn(NoneVal, Loaded(<<3>>, <<5>>), <<>>, <<>>, <<>>, <<>>), LutTx),
      NoneWrapper }

AllWrappers ==
    CoreWrappers \cup TruncatedWrappers \cup LoadedWrappers \cup InnerWrappers
        \cup MetaWrappers \cup OtherWrappers

\* the transaction lists of a block: empty, or one wrapper of AllWrappers
\* placed anywhere among fewer than MaxTxs wrappers of CoreWrappers
BlockOf(base, p, w, bt) ==
    [transactions |-> InsertAt(base, p, w), blockTime |-> bt, slot |-> 250]

Init ==
    /\ \E bt \in {<<>>, <<1700000000>>} :
         \/ block = [transactions |-> <<>>, blockTime |-> bt, slot |-> 250]
         \/ \E base \in SeqsUpTo(CoreWrappers, MaxTxs - 1) :
              \E p \in 0..Len(base), w \in AllWrappers : block = BlockOf(base, p, w, bt)
    /\ raw_transactions = <<>>
    /\ raised = FALSE
    /\ bpc = "ready"
    /\ tx_data = Str("") /\ tx_src = SampleTx /\ decoded = NoDecode /\ dpc = "idle"
    /\ rtx = NoneVal /\ view = NoneVal /\ vpc = "idle"
    /\ CallIdle /\ RegistryEmpty
    /\ SourceIdle

ConvertBlock ==
    /\ bpc = "ready"
    /\ LET r == convert_block_to_raw_transactions(block) IN
         /\ raw_transactions' = r.list
         /\ raised' = r.raised
    /\ bpc' = "done"
    /\ UNCHANGED <<block, decodeVars, viewVars, callVars, registryVars>>
    /\ UNCHANGED sourceVars

\* is_successful read on one of the records returned
ReadIsSuccessful ==
    /\ bpc = "done"
    /\ \E k \in 1..Len(raw_transactions) :
         /\ rtx' = raw_transactions[k]
         /\ view' = is_successful(raw_transactions[k])
    /\ vpc' = "is_successful"
    /\ UNCHANGED <<blockVars, decodeVars, callVars, registryVars>>
    /\ UNCHANGED sourceVars

Next == ConvertBlock \/ ReadIsSuccessful

Spec == Init /\ [][Next]_vars

-----------------------------------------------------------------------------
(* C7 *)

\* the last k elements of a set S of numbers
LastOf(S, k) == { x \in S : Cardinality({ y \in S : y > x }) < k }

\* the payload holds the header and the account count of tx_src
HeaderRead == tx_data.enc = "b64" /\ Len(tx_data.val) >= 1 + SIG_LEN * Len(tx_src.sigs) + 4

\* C7: decode_transaction marks account i as signer iff i is one of the first
\* numRequiredSignatures positions, and as writable iff it is a signer position
\* that is not among the last numReadonlySignedAccounts signer positions or a
\* non-signer that is not among the last numReadonlyUnsignedAccounts
\* non-signers, for every header and every account count.
C7_SignerWritableFlags ==
    (dpc = "done" /\ HeaderRead) =>
        LET n == Len(tx_src.keys)
            signers == 0..(tx_src.hdr[1] - 1)
            nonSigners == (0..(n - 1)) \ signers
            roSigned == LastOf(signers, tx_src.hdr[2])
            roUnsigned == LastOf(nonSigners, tx_src.hdr[3])
        IN /\ Len(decoded.account_keys) = n
           /\ \A i \in 0..(n - 1) :
                /\ decoded.account_keys[i + 1].signer = (i \in signers)
                /\ decoded.account_keys[i + 1].writable =
                       \/ (i \in signers /\ i \notin roSigned)
                       \/ (i \in nonSigners /\ i \notin roUnsigned)
                /\ decoded.account_keys[i + 1].source = "transaction"

\* a decoded transaction with a read-only signer, a writable signer, a writable
\* non-signer and a read-only non-signer
C7_Witness ==
    /\ dpc = "done" /\ HeaderRead
    /\ \E i, j, k, l \in 1..Len(decoded.account_keys) :
         /\ decoded.account_keys[i].signer /\ ~decoded.account_keys[i].writable
         /\ decoded.account_keys[j].signer /\ decoded.account_keys[j].writable
         /\ ~decoded.account_keys[k].signer /\ decoded.account_keys[k].writable
         /\ ~decoded.account_keys[l].signer /\ ~decoded.account_keys[l].writable

-----------------------------------------------------------------------------
(* Claims about the conversion of a block (Spec) *)

Txs == block.transactions
WrapperOf(rec) == Txs[rec.id + 1]
Converted(i) == convert_transaction_wrapper(Txs[i], block.slot, block.blockTime, i - 1)
RemoveAt(seq, i) == SubSeq(seq, 1, i - 1) \o SubSeq(seq, i + 1, Len(seq))
BlockWithout(i) == [block EXCEPT !.transactions = RemoveAt(Txs, i)]

\* C1: a transaction whose payload is truncated contributes no record to the
\* output, and a block of one well-formed and one truncated payload yields
\* exactly one record.
C1_TruncatedYieldsNoRecord ==
    bpc = "done" =>
        /\ \A k \in 1..Len(raw_transactions) : ~Truncated(WrapperOf(raw_transactions[k]))
        /\ (/\ Len(Txs) = 2
            /\ \E i, j \in 1..2 : i # j /\ WellFormed(Txs[i]) /\ Truncated(Txs[j]))
                => Len(raw_transactions) = 1

\* C2 as stated: the call never raises, and when converting transaction i
\* fails the output is exactly the output for the block without transaction i.
C2_OutputAsIfAbsent ==
    bpc = "done" =>
        /\ ~raised
        /\ \A i \in 1..Len(Txs) :
             Converted(i).kind # "record" =>
                 raw_transactions = convert_block_to_raw_transactions(BlockWithout(i)).list

\* the records of a list with every id from position p on raised by one
ShiftIds(list, p) ==
    [k \in 1..Len(list) |->
        [list[k] EXCEPT !.id = IF list[k].id >= p THEN list[k].id + 1 ELSE list[k].id]]

\* C2 (amended): the call never raises, and when converting transaction i
\* fails the output holds the records of the block without transaction i,
\* each with the id of its position in the block as given.
C2_FailureIsolated ==
    bpc = "done" =>
        /\ ~raised
        /\ \A i \in 1..Len(Txs) :
             Converted(i).kind # "record" =>
                 raw_transactions =
                     ShiftIds(convert_block_to_raw_transactions(BlockWithout(i)).list, i - 1)

\* a block whose first transaction raised and whose second one has a record
C2_Witness ==
    /\ bpc = "done" /\ Len(Txs) >= 2
    /\ Converted(1).kind = "raise"
    /\ \E k \in 1..Len(raw_transactions) : raw_transactions[k].id = 1

\* the program of the last line "Program <address> invoke [d]" of the logs
InvokeLines(logs, d) == { k \in 1..Len(logs) : logs[k].kind = "invoke" /\ logs[k].depth = d }
LastInvoked(logs, d) ==
    LET ks == InvokeLines(logs, d) IN
    IF ks = {} THEN Str("unknown")
    ELSE logs[CHOOSE k \in ks : \A j \in ks : j <= k].program

\* C5: an inner instruction of stack height d carries the program address of
\* the last log line "Program <address> invoke [d]", and "unknown" only when
\* no line matches depth d.
C5_InnerProgramFromLogs ==
    bpc = "done" =>
        \A k \in 1..Len(raw_transactions) :
            LET meta == raw_transactions[k].meta IN
            \A g \in 1..Len(meta.innerInstructions) :
                \A m \in 1..Len(meta.innerInstructions[g].instructions) :
                    LET ix == meta.innerInstructions[g].instructions[m] IN
                    ix.stackHeight # <<>> =>
                        ix.programId = LastInvoked(meta.logMessages, ix.stackHeight[1])

LoadedOf(w) ==
    IF w.meta.isNone \/ w.meta.loadedAddresses.isNone THEN NoLoaded ELSE w.meta.loadedAddresses
Pubkeys(keys) == [k \in 1..Len(keys) |-> keys[k].pubkey]

\* C8: the account keys of a record are the keys decoded from the payload (for
\* a complete payload, the keys of the transaction in message order), then the
\* loaded writable addresses, then the loaded readonly addresses, each in the
\* provider's order.
C8_ExtendedKeyOrder ==
    bpc = "done" =>
        \A k \in 1..Len(raw_transactions) :
            LET rec == raw_transactions[k]
                w == WrapperOf(rec)
                base == decode_transaction(w.transaction[1]).account_keys
                lw == LoadedOf(w).writable
                lr == LoadedOf(w).readonly
                ext == Pubkeys(rec.accountKeys)
            IN /\ Len(ext) = Len(base) + Len(lw) + Len(lr)
               /\ SubSeq(rec.accountKeys, 1, Len(base)) = base
               /\ WellFormed(w) => Pubkeys(base) = [j \in 1..Len(w.src.keys) |-> KeyAddr(w.src.keys[j])]
               /\ SubSeq(ext, Len(base) + 1, Len(base) + Len(lw)) = lw
               /\ SubSeq(ext, Len(base) + Len(lw) + 1, Len(ext)) = lr

\* a record with a declared key, two loaded writable addresses and two loaded
\* readonly ones
C8_Witness ==
    /\ bpc = "done"
    /\ \E k \in 1..Len(raw_transactions) :
         LET w == WrapperOf(raw_transactions[k]) IN
         /\ WellFormed(w) /\ Len(w.src.keys) >= 1
         /\ Len(LoadedOf(w).writable) = 2 /\ Len(LoadedOf(w).readonly) = 2
         /\ Len(raw_transactions[k].accountKeys) = Len(w.src.keys) + 4

\* C9: no record holds a resolved instruction whose program index or one of
\* whose account indices is at or past the end of the extended account list:
\* such an instruction is a resolution error, never a resolved instruction
\* with the reference left out.
C9_OutOfRangeIsError ==
    bpc = "done" =>
        \A k \in 1..Len(raw_transactions) :
            LET rec == raw_transactions[k]
                w == WrapperOf(rec)
            IN WellFormed(w) =>
                \A m \in 1..Len(rec.instructions) :
                    /\ w.src.ixs[m].prog < Len(rec.accountKeys)
                    /\ \A a \in 1..Len(w.src.ixs[m].accts) :
                         w.src.ixs[m].accts[a] < Len(rec.accountKeys)

\* accounts is the list of the addresses that the indices name in extended
ResolvedAgainst(ix, indices, extended) ==
    /\ ix.hasAccounts
    /\ Len(ix.accounts) = Len(indices)
    /\ \A a \in 1..Len(indices) :
         indices[a] < Len(extended) => ix.accounts[a] = extended[indices[a] + 1].pubkey

\* C10: every outer and every inner instruction of a record has an accounts
\* list as long as its index list, with accounts[k] the address at index[k] of
\* the extended account list (the loaded addresses included).
C10_AccountsResolved ==
    bpc = "done" =>
        \A k \in 1..Len(raw_transactions) :
            LET rec == raw_transactions[k]
                w == WrapperOf(rec)
            IN WellFormed(w) =>
                /\ Len(rec.instructions) = Len(w.src.ixs)
                /\ \A m \in 1..Len(rec.instructions) :
                     ResolvedAgainst(rec.instructions[m], w.src.ixs[m].accts, rec.accountKeys)
                /\ \A g \in 1..Len(rec.meta.innerInstructions) :
                     \A m \in 1..Len(rec.meta.innerInstructions[g].instructions) :
                         ResolvedAgainst(rec.meta.innerInstructions[g].instructions[m],
                                         w.meta.innerInstructions[g].instructions[m].accounts,
                                         rec.accountKeys)

-----------------------------------------------------------------------------
(* SpecViews: the derived views read on a RawTransaction.  The records are *)
(* of two families: up to MaxOuter outer instructions with up to MaxGroups *)
(* inner groups of MaxInner inner instructions in all, the group indices   *)
(* and stack heights free; and up to MaxBal token balance entries spread   *)
(* over the two snapshots, the account index, mint and amount free.        *)

MaxOuter == 2
MaxGroups == 2
MaxInner == 2
MaxBal == 2

StackHeights == { <<>>, <<2>>, <<3>> }
Amounts == { <<0>>, <<5>>, <<0, 5>> }
Mints == { 7, 8 }
AccountLists == { <<1, 2>>, <<1, 1>> }

RECURSIVE Sum(_)
Sum(ns) == IF ns = <<>> THEN 0 ELSE Head(ns) + Sum(Tail(ns))

OuterIx(k) == InstructionField(KeyAddr(1), <<>>, TRUE, B64(<<k>>), <<1>>)
InnerIx(g, m, h) == InstructionField(Str("unknown"), <<>>, FALSE, B64(<<g, m>>), h)

ViewMeta(inner, pre, post) ==
    [NoMetaOut EXCEPT !.isNone = FALSE, !.innerInstructions = inner,
                      !.preTokenBalances = pre, !.postTokenBalances = post]
ViewRecord(keys, outer, meta) ==
    RawTransaction(0, 250, 0, 0, DecodeResult(<<>>, <<>>, outer, Str("")),
                   [k \in 1..Len(keys) |-> AccountKey(KeyAddr(keys[k]), k = 1, TRUE, "transaction")],
                   meta)

\* the inner groups of the given sizes, indices and stack heights (heights is
\* one list for all groups, in order)
InnerGroups(sizes, indices, heights) ==
    [g \in 1..Len(sizes) |->
        [index |-> indices[g],
         instructions |->
            [m \in 1..sizes[g] |-> InnerIx(g, m, heights[Sum(SubSeq(sizes, 1, g - 1)) + m])]]]

TokenEntry(accountIndex, mint, amount) ==
    TokenBalanceChange(accountIndex, KeyAddr(mint), Str(""), KeyAddr(9), amount, 6)
TokenEntries ==
    { TokenEntry(a, m, x) : a \in 0..1, m \in Mints, x \in Amounts }
        \cup { TokenEntry(2, 7, <<5>>) }

NoView == [raises |-> FALSE, val |-> <<>>]

\* the sizes of the inner groups of a record: no group is empty
GroupSizes == { z \in SeqsUpTo(1..MaxInner, MaxGroups) : Sum(z) <= MaxInner }

InitViews ==
    /\ \/ \E n \in 0..MaxOuter, sizes \in GroupSizes :
            \E indices \in [1..Len(sizes) -> 0..n],
               heights \in [1..Sum(sizes) -> StackHeights] :
                rtx = ViewRecord(<<1>>, [k \in 1..n |-> OuterIx(k)],
                                 ViewMeta(InnerGroups(sizes, indices, heights), <<>>, <<>>))
       \/ \E np \in 0..MaxBal, keys \in AccountLists :
            \E nq \in 0..(MaxBal - np) :
              \E pre \in [1..np -> TokenEntries], post \in [1..nq -> TokenEntries] :
                rtx = ViewRecord(keys, <<>>, ViewMeta(<<>>, pre, post))
       \/ rtx = ViewRecord(<<1>>, <<OuterIx(1)>>, NoMetaOut)
    /\ view = NoView
    /\ vpc = "idle"
    /\ tx_data = Str("") /\ tx_src = SampleTx /\ decoded = NoDecode /\ dpc = "idle"
    /\ block = [transactions |-> <<>>, blockTime |-> <<>>, slot |-> 0]
    /\ raw_transactions = <<>> /\ raised = FALSE /\ bpc = "idle"
    /\ CallIdle /\ RegistryEmpty
    /\ SourceIdle

ReadAllInstructions ==
    /\ view' = all_instructions(rtx)
    /\ vpc' = "all_instructions"
    /\ UNCHANGED <<rtx, decodeVars, blockVars, callVars, registryVars>>
    /\ UNCHANGED sourceVars

ReadTokenTransfers ==
    /\ \E order \in IterationOrders(rtx) : view' = token_transfers(rtx, order)
    /\ vpc' = "token_transfers"
    /\ UNCHANGED <<rtx, decodeVars, blockVars, callVars, registryVars>>
    /\ UNCHANGED sourceVars

NextViews == ReadAllInstructions \/ ReadTokenTransfers

SpecViews == InitViews /\ [][NextViews]_vars

-----------------------------------------------------------------------------
(* Claims about the derived views (SpecViews) *)

Outer == rtx.instructions
Groups == rtx.meta.innerInstructions
AllRead == vpc = "all_instructions" /\ ~view.raises
\* the positions of an instruction in the list read
PositionsOf(ix) == { p \in 1..Len(view.val) : view.val[p] = ix }

\* C3: in all_instructions the instructions of each inner group keep the
\* relative order of the group's list, whatever their stack heights.
C3_GroupOrderKept ==
    AllRead =>
        \A g \in 1..Len(Groups) :
            \A a, b \in 1..Len(Groups[g].instructions) :
                a < b =>
                    \A p \in PositionsOf(Groups[g].instructions[a]) :
                        \A q \in PositionsOf(Groups[g].instructions[b]) : p < q

\* the position of outer instruction i (1-based), and the instructions
\* between it and the next outer instruction
OuterPos(i) == CHOOSE p \in 1..Len(view.val) : view.val[p] = Outer[i]
Segment(i) ==
    SubSeq(view.val, OuterPos(i) + 1,
           IF i < Len(Outer) THEN OuterPos(i + 1) - 1 ELSE Len(view.val))
Range(seq) == { seq[k] : k \in 1..Len(seq) }
TotalInner == Sum([g \in 1..Len(Groups) |-> Len(Groups[g].instructions)])

\* C4: all_instructions holds every outer instruction in message order; outer
\* instruction i is followed at once, and before outer instruction i + 1, by
\* exactly the instructions of the inner group whose index is i (by nothing if
\* there is no such group); with distinct valid group indices the length is the
\* number of outer plus the number of inner instructions.
C4_Interleaving ==
    AllRead =>
        /\ \A i \in 1..Len(Outer) : PositionsOf(Outer[i]) # {}
        /\ Len(Outer) = 0 => view.val = <<>>
        /\ Len(Outer) > 0 => OuterPos(1) = 1
        /\ \A i \in 1..(Len(Outer) - 1) : OuterPos(i) < OuterPos(i + 1)
        /\ \A i \in 1..Len(Outer) :
             LET gs == GroupsAt(Groups, i - 1) IN
             /\ gs = {} => Segment(i) = <<>>
             /\ \A g \in gs :
                  Cardinality(gs) = 1 =>
                      /\ Len(Segment(i)) = Len(Groups[g].instructions)
                      /\ Range(Segment(i)) = Range(Groups[g].instructions)
        /\ (/\ \A g, h \in 1..Len(Groups) : Groups[g].index = Groups[h].index => g = h
            /\ \A g \in 1..Len(Groups) : Groups[g].index < Len(Outer))
               => Len(view.val) = Len(Outer) + TotalInner

\* outer [A, B] with the group [C, D] of index 0 read as [A, C, D, B]
C4_Witness ==
    /\ AllRead
    /\ Len(Outer) = 2 /\ Len(Groups) = 1 /\ Groups[1].index = 0
    /\ Len(Groups[1].instructions) = 2
    /\ view.val = <<Outer[1], Groups[1].instructions[1], Groups[1].instructions[2], Outer[2]>>

Accounts == [k \in 1..Len(rtx.accountKeys) |-> rtx.accountKeys[k].pubkey]
PrePairs == BalanceKeys(Accounts, rtx.meta.preTokenBalances)
PostPairs == BalanceKeys(Accounts, rtx.meta.postTokenBalances)
\* the amount of a pair in a snapshot that holds the pair at most once
AmountIn(tbs, pair) ==
    LET ks == { k \in 1..Len(tbs) : <<Accounts[tbs[k].accountIndex + 1], tbs[k].mint>> = pair } IN
    IF ks = {} THEN 0 ELSE ParseInt(tbs[CHOOSE k \in ks : TRUE].uiTokenAmount.amount)
EntriesOf(pair) ==
    { k \in 1..Len(view.val) : view.val[k].account = pair[1] /\ view.val[k].mint = pair[2] }
TransfersRead == vpc = "token_transfers" /\ ~view.raises
\* each snapshot holds a pair at most once
PairsUnique ==
    /\ Cardinality(PrePairs) = Len(rtx.meta.preTokenBalances)
    /\ Cardinality(PostPairs) = Len(rtx.meta.postTokenBalances)

\* C6: token_transfers holds exactly one entry for each (account, mint) pair of
\* the pre or post snapshot whose post amount differs from its pre amount (a
\* snapshot without the pair counting as 0), with amount_change the post
\* amount minus the pre amount, and no entry for any other pair.
C6_TokenTransfers ==
    (TransfersRead /\ PairsUnique) =>
        /\ \A pair \in PrePairs \cup PostPairs :
             LET pre == AmountIn(rtx.meta.preTokenBalances, pair)
                 post == AmountIn(rtx.meta.postTokenBalances, pair)
             IN IF post # pre
                THEN /\ Cardinality(EntriesOf(pair)) = 1
                     /\ \A k \in EntriesOf(pair) : view.val[k].amount_change = post - pre
                ELSE EntriesOf(pair) = {}
        /\ \A k \in 1..Len(view.val) :
             <<view.val[k].account, view.val[k].mint>> \in PrePairs \cup PostPairs

\* one pair, held by the post snapshot only, reported as one transfer
C6_Witness ==
    /\ TransfersRead /\ PairsUnique
    /\ Len(view.val) = 1
    /\ <<view.val[1].account, view.val[1].mint>> \in PostPairs \ PrePairs
    /\ Cardinality(PrePairs \cup PostPairs) = 1

-----------------------------------------------------------------------------
(* SpecVarint: one call of decode_compact_u16 at offset 0 on the encoding  *)
(* of a count n, as a validator writes it: 1 byte below 0x80, 2 bytes      *)
(* below 0x4000, 3 bytes otherwise, seven bits to a byte, low bits first,  *)
(* the top bit of a byte set when another byte follows.                    *)

MaxVarint == 300

\* the minimal-length encoding of n
MinimalEncoding(n) ==
    IF n < 128 THEN <<n>>
    ELSE IF n < 16384 THEN <<128 + (n % 128), n \div 128>>
    ELSE <<128 + (n % 128), 128 + ((n \div 128) % 128), n \div 16384>>

\* the counts decoded: the small ones, and those around the length classes
VarintValues == (0..MaxVarint) \cup { 16383, 16384, 16385, 2097151, 2097152, 2113535 }

InitVarint ==
    /\ \E n \in VarintValues : arg = [n |-> n, data |-> MinimalEncoding(n)]
    /\ ret = <<>>
    /\ cpc = "ready"
    /\ tx_data = Str("") /\ tx_src = SampleTx /\ decoded = NoDecode /\ dpc = "idle"
    /\ InitOthersIdleButCall
    /\ RegistryEmpty
    /\ SourceIdle

DecodeCompactU16 ==
    /\ cpc = "ready"
    /\ ret' = decode_compact_u16(arg.data, 0)
    /\ cpc' = "decode_compact_u16"
    /\ UNCHANGED <<arg, decodeVars, blockVars, viewVars, registryVars>>
    /\ UNCHANGED sourceVars

NextVarint == DecodeCompactU16

SpecVarint == InitVarint /\ [][NextVarint]_vars

(* C11: decode_compact_u16 at offset 0 of the minimal-length encoding of n  *)
(* returns n and the length of the encoding.                                *)
C11_VarintRoundTrip ==
    cpc = "decode_compact_u16" => ret = <<arg.n, Len(arg.data)>>

-----------------------------------------------------------------------------
(* SplTokenCoder (spl_token_coder.py).  A Python int has no width: an      *)
(* amount is held as its four 16-bit limbs, low limb first, so that        *)
(* 2^64 - 1 is <<65535, 65535, 65535, 65535>>.                             *)

SPL_TOKEN_PROGRAM_ID == Str("TokenkegQfeZyiNwAJbNbGKPFXCWuBvf9Ss623VQ5DA")

\* the fields of the borsh layouts: the number of bytes each reads
U8_LEN == 1
U64_LEN == 8

\* U8 at offset o
U8(data, o) == data[o + 1]

U64BigEndian(data, o) ==
    [k \in 1..4 |-> data[o + 10 - 2 * k] + 256 * data[o + 9 - 2 * k]]
\* U64 at offset o: little-endian
U64(data, o) ==
    [k \in 1..4 |-> data[o + 2 * k - 1] + 256 * data[o + 2 * k]]

NoFields ==
    [type |-> "", discriminator |-> 0, amount |-> <<>>, decimals |-> <<>>,
     key |-> NoneVal, freeze_authority |-> NoneVal]

\* CStruct.parse(data) -> [raises, val]: construct raises StreamError when
\* the data ends before the last field that is not optional; bytes after the
\* layout are left unread
LayoutParse(data, size, val) ==
    IF Len(data) < size THEN [raises |-> TRUE, val |-> NoFields]
    ELSE [raises |-> FALSE, val |-> val]

\* transfer_layout, mint_to_layout, burn_layout
amount_layout(data) ==
    LayoutParse(data, U8_LEN + U64_LEN,
        [NoFields EXCEPT !.discriminator = U8(data, 0), !.amount = U64(data, 1)])

\* transfer_checked_layout, mint_to_checked_layout, burn_checked_layout
amount_checked_layout(data) ==
    LayoutParse(data, U8_LEN + U64_LEN + U8_LEN,
        [NoFields EXCEPT !.discriminator = U8(data, 0), !.amount = U64(data, 1),
                         !.decimals = <<U8(data, 9)>>])

\* initialize_mint_layout: freeze_authority is Optional(Bytes(32)), None when
\* fewer than 32 bytes are left
initialize_mint_layout(data) ==
    LayoutParse(data, U8_LEN + U8_LEN + KEY_LEN,
        [NoFields EXCEPT !.discriminator = U8(data, 0), !.decimals = <<U8(data, 1)>>,
                         !.key = B58(Slice(data, 2, 2 + KEY_LEN)),
                         !.freeze_authority =
                             IF Len(data) >= 2 + 2 * KEY_LEN
                             THEN B58(Slice(data, 2 + KEY_LEN, 2 + 2 * KEY_LEN))
                             ELSE NoneVal])

\* initialize_account_3_layout
initialize_account_3_layout(data) ==
    LayoutParse(data, U8_LEN + KEY_LEN,
        [NoFields EXCEPT !.discriminator = U8(data, 0),
                         !.key = B58(Slice(data, 1, 1 + KEY_LEN))])

ParsedInstruction(instruction, instruction_index, parsed_data, coder_name) ==
    [instruction |-> instruction, instruction_index |-> instruction_index,
     parsed_data |-> parsed_data, coder_name |-> coder_name]

\* SplTokenCoder.can_handle
can_handle(instruction) ==
    instruction.programId = SPL_TOKEN_PROGRAM_ID /\ instruction.data # NoneVal

\* one case of the match statement: -> [raises, val], val is <<>> for
\* parsed_data = None
MatchCase(accounts, min_accounts, parsed, type) ==
    IF Len(accounts) < min_accounts THEN [raises |-> FALSE, val |-> <<>>]
    ELSE IF parsed.raises THEN [raises |-> TRUE, val |-> <<>>]
    ELSE [raises |-> FALSE, val |-> <<[parsed.val EXCEPT !.type = type]>>]

\* the match statement of parse_instruction
Match(discriminator, accounts, data) ==
    CASE discriminator = 0 -> MatchCase(accounts, 1, initialize_mint_layout(data), "InitializeMintData")
      [] discriminator = 3 -> MatchCase(accounts, 3, amount_layout(data), "TransferData")
      [] discriminator = 7 -> MatchCase(accounts, 2, amount_layout(data), "MintToData")
      [] discriminator = 8 -> MatchCase(accounts, 2, amount_layout(data), "BurnData")
      [] discriminator = 12 -> MatchCase(accounts, 4, amount_checked_layout(data), "TransferData")
      [] discriminator = 14 -> MatchCase(accounts, 2, amount_checked_layout(data), "MintToData")
      [] discriminator = 15 -> MatchCase(accounts, 2, amount_checked_layout(data), "BurnData")
      [] discriminator = 18 -> MatchCase(accounts, 2, initialize_account_3_layout(data), "InitializeAccountData")
      [] discriminator = 20 -> MatchCase(accounts, 1, initialize_mint_layout(data), "InitializeMintData")
      [] OTHER -> [raises |-> FALSE, val |-> <<>>]

\* the try block of parse_instruction: -> [raises, val]
TryParse(instruction, instruction_index) ==
    IF B64DecodeRaises(instruction.data) THEN [raises |-> TRUE, val |-> <<>>]
    ELSE LET data == B64Decode(instruction.data) IN
         IF Len(data) = 0 THEN [raises |-> FALSE, val |-> <<>>]
         ELSE LET m == Match(U8(data, 0), instruction.accounts, data) IN
              IF m.raises \/ m.val = <<>> THEN [raises |-> m.raises, val |-> <<>>]
              ELSE [raises |-> FALSE,
                    val |-> <<ParsedInstruction(instruction, instruction_index,
                                                m.val[1], "SPL_Token")>>]

parse_instruction_no_except(instruction, instruction_index) ==
    IF \/ instruction.data \in {NoneVal, Str("")}
       \/ ~instruction.hasAccounts \/ instruction.accounts = <<>>
    THEN [raises |-> FALSE, val |-> <<>>]
    ELSE TryParse(instruction, instruction_index)
\* SplTokenCoder.parse_instruction -> [raises, val]: val is <<>> for None and
\* <<p>> for the ParsedInstruction p
parse_instruction(instruction, instruction_index) ==
    IF \/ instruction.data \in {NoneVal, Str("")}
       \/ ~instruction.hasAccounts \/ instruction.accounts = <<>>
    THEN [raises |-> FALSE, val |-> <<>>]
    ELSE [raises |-> FALSE, val |-> TryParse(instruction, instruction_index).val]

-----------------------------------------------------------------------------
(* SpecToken: calls of SplTokenCoder.can_handle and parse_instruction on   *)
(* one instruction.  Its data is absent, empty, not base64, or the first   *)
(* bytes of a buffer <discriminator, amount, decimals, filler>; its        *)
(* accounts are absent or a list of up to MaxTokenAccounts addresses.      *)

MaxTokenAccounts == 4

\* the eight bytes of an amount, low byte first
LittleEndian(amount) ==
    Flatten([k \in 1..4 |-> <<amount[k] % 256, amount[k] \div 256>>])

TokenAmounts ==
    { <<0, 0, 0, 0>>, <<513, 0, 0, 0>>, <<0, 0, 1, 0>>, <<1, 2, 3, 4>>,
      <<65535, 65535, 65535, 65535>> }
Discriminators == { 0, 1, 3, 7, 8, 12, 14, 15, 18, 20, 99 }
DataLengths == { 1, 8, 9, 10, 11, 33, 34, 66 }

TokenBuffer(discriminator, amount, decimals) ==
    <<discriminator>> \o LittleEndian(amount) \o <<decimals>> \o Rep(56, 7)

TokenInstruction(programId, accounts, hasAccounts, data) ==
    InstructionField(programId, [k \in 1..accounts |-> KeyAddr(k)], hasAccounts, data, <<1>>)

InitToken ==
    /\ \E programId \in {SPL_TOKEN_PROGRAM_ID, KeyAddr(1)}, n \in 0..MaxTokenAccounts,
          hasAccounts \in BOOLEAN, amount \in TokenAmounts :
         /\ hasAccounts \/ n = 0
         /\ \/ \E data \in {NoneVal, Str(""), NotBase64} :
                 /\ amount = <<0, 0, 0, 0>>
                 /\ arg = [instruction |-> TokenInstruction(programId, n, hasAccounts, data),
                           instruction_index |-> 2, amount |-> amount]
            \/ \E d \in Discriminators, len \in DataLengths :
                 arg = [instruction |->
                            TokenInstruction(programId, n, hasAccounts,
                                B64(SubSeq(TokenBuffer(d, amount, 6), 1, len))),
                        instruction_index |-> 2, amount |-> amount]
    /\ ret = <<>>
    /\ cpc = "ready"
    /\ tx_data = Str("") /\ tx_src = SampleTx /\ decoded = NoDecode /\ dpc = "idle"
    /\ InitOthersIdleButCall
    /\ RegistryEmpty
    /\ SourceIdle

CanHandle ==
    /\ cpc # "idle"
    /\ ret' = can_handle(arg.instruction)
    /\ cpc' = "can_handle"
    /\ UNCHANGED <<arg, decodeVars, blockVars, viewVars, registryVars>>
    /\ UNCHANGED sourceVars

ParseInstruction ==
    /\ cpc # "idle"
    /\ ret' = parse_instruction(arg.instruction, arg.instruction_index)
    /\ cpc' = "parse_instruction"
    /\ UNCHANGED <<arg, decodeVars, blockVars, viewVars, registryVars>>
    /\ UNCHANGED sourceVars

NextToken == CanHandle \/ ParseInstruction

SpecToken == InitToken /\ [][NextToken]_vars

-----------------------------------------------------------------------------
(* Claims about SplTokenCoder (SpecToken) *)

TokenData == B64Decode(arg.instruction.data)
HasBytes == arg.instruction.data.enc = "b64"
\* parse_instruction was called on data of len bytes with the given first
\* byte and at least n accounts
ParsedCase(discriminator, len, n) ==
    /\ cpc = "parse_instruction" /\ HasBytes
    /\ Len(TokenData) = len /\ TokenData[1] = discriminator
    /\ arg.instruction.hasAccounts /\ Len(arg.instruction.accounts) >= n
\* it returned a ParsedInstruction of the given type with the encoded amount
ReturnedAmount(type) ==
    /\ ~ret.raises /\ ret.val # <<>>
    /\ ret.val[1].parsed_data.type = type
    /\ ret.val[1].parsed_data.amount = arg.amount

(* C15: can_handle is true iff the program address is the token program's   *)
(* and the data is non-empty (not absent and not the empty string).         *)
C15_CanHandleNonEmpty ==
    cpc = "can_handle" =>
        (ret <=> /\ arg.instruction.programId = SPL_TOKEN_PROGRAM_ID
                 /\ arg.instruction.data \notin {NoneVal, Str("")})

(* C16 as stated: with at least 3 accounts, 9 bytes of discriminator 3 give *)
(* a transfer of the encoded amount, discriminator 7 a mint-to of it, and   *)
(* discriminator 12 (10 bytes) also returns the 10th byte as decimals.      *)
C16_AmountWithThreeAccounts ==
    /\ ParsedCase(3, 9, 3) => ReturnedAmount("TransferData")
    /\ ParsedCase(7, 9, 3) => ReturnedAmount("MintToData")
    /\ ParsedCase(12, 10, 3) =>
          /\ ReturnedAmount("TransferData")
          /\ ret.val[1].parsed_data.decimals = <<TokenData[10]>>

(* C16 amended: the same, discriminator 12 with at least 4 accounts.        *)
C16_AmountDecoded ==
    /\ ParsedCase(3, 9, 3) => ReturnedAmount("TransferData")
    /\ ParsedCase(7, 9, 3) => ReturnedAmount("MintToData")
    /\ ParsedCase(12, 10, 4) =>
          /\ ReturnedAmount("TransferData")
          /\ ret.val[1].parsed_data.decimals = <<TokenData[10]>>

\* a transfer of 2^64 - 1 was decoded
C16_Witness ==
    /\ ParsedCase(3, 9, 3) /\ ReturnedAmount("TransferData")
    /\ arg.amount = <<65535, 65535, 65535, 65535>>

\* the variants parse_instruction handles, the bytes their layouts need and
\* the accounts they need
Handled == { 0, 3, 7, 8, 12, 14, 15, 18, 20 }
LayoutBytes(discriminator) ==
    CASE discriminator \in {3, 7, 8} -> 9
      [] discriminator \in {12, 14, 15} -> 10
      [] discriminator = 18 -> 33
      [] discriminator \in {0, 20} -> 34
MinAccounts(discriminator) ==
    CASE discriminator = 3 -> 3
      [] discriminator = 12 -> 4
      [] discriminator \in {7, 8, 14, 15, 18} -> 2
      [] discriminator \in {0, 20} -> 1

(* C17: parse_instruction never raises, and returns a ParsedInstruction iff *)
(* the discriminator is handled, the data is as long as its layout and the  *)
(* instruction has the variant's minimum of accounts; else None.            *)
C17_NoneWhenUnparsable ==
    cpc = "parse_instruction" =>
        /\ ~ret.raises
        /\ ret.val # <<>> <=>
              /\ HasBytes
              /\ TokenData[1] \in Handled
              /\ Len(TokenData) >= LayoutBytes(TokenData[1])
              /\ arg.instruction.hasAccounts
              /\ Len(arg.instruction.accounts) >= MinAccounts(TokenData[1])

\* a transfer of 8 bytes, one short of its layout, with 3 accounts gave None
C17_Witness ==
    /\ cpc = "parse_instruction" /\ HasBytes /\ ret.val = <<>> /\ ~ret.raises
    /\ arg.instruction.hasAccounts
    /\ TokenData[1] = 3 /\ Len(TokenData) = 8 /\ Len(arg.instruction.accounts) = 3

-----------------------------------------------------------------------------
(* BaseCoder and CoderRegistry (base_coder.py).  A coder is a record       *)
(* [name, program_ids, kind]; kind stands for the subclass:                *)
(*   "spl"          SplTokenCoder                                          *)
(*   "own"          can_handle is supports_program(instruction.programId)  *)
(*   "any"          can_handle is True for every instruction               *)
(*   "raise_can"    as "own", can_handle raising on BadData                *)
(*   "raise_parse"  as "own", parse_instruction raising on BadData         *)

Coder(name, program_ids, kind) == [name |-> name, program_ids |-> program_ids, kind |-> kind]

\* instruction data on which the coders of the raising kinds raise
BadData == B64(<<66>>)

\* coder.can_handle(instruction) -> [raises, val]
CoderCanHandle(coder, instruction) ==
    CASE coder.kind = "spl" -> [raises |-> FALSE, val |-> can_handle(instruction)]
      [] coder.kind = "any" -> [raises |-> FALSE, val |-> TRUE]
      [] coder.kind = "raise_can" /\ instruction.data = BadData ->
            [raises |-> TRUE, val |-> FALSE]
      [] OTHER -> [raises |-> FALSE, val |-> instruction.programId \in coder.program_ids]

\* coder.parse_instruction(instruction, instruction_index, context) -> [raises, val]
CoderParseInstruction(coder, instruction, instruction_index) ==
    CASE coder.kind = "spl" -> parse_instruction(instruction, instruction_index)
      [] coder.kind = "raise_parse" /\ instruction.data = BadData ->
            [raises |-> TRUE, val |-> <<>>]
      [] OTHER -> [raises |-> FALSE,
                   val |-> <<ParsedInstruction(instruction, instruction_index,
                                 [NoFields EXCEPT !.type = "parsed"], coder.name)>>]

\* TransactionContext(raw_transaction) raises when one of the properties it
\* reads does
ContextRaises(r) ==
    \/ is_successful(r).raises
    \/ native_transfers(r).raises
    \/ \A order \in IterationOrders(r) : token_transfers(r, order).raises

\* the loop of BaseCoder.parse_transaction from instruction i on:
\* -> [raises, val, calls]; calls are the <<coder name, method, index>> made
RECURSIVE CoderLoop(_, _, _, _, _)
CoderLoop(coder, instructions, i, parsed_instructions, calls) ==
    IF i >= Len(instructions)
    THEN [raises |-> FALSE, val |-> parsed_instructions, calls |-> calls]
    ELSE LET instruction == instructions[i + 1]
             can == CoderCanHandle(coder, instruction)
             calls1 == calls \cup {<<coder.name, "can_handle", i>>}
         IN IF can.raises THEN [raises |-> TRUE, val |-> <<>>, calls |-> calls1]
            ELSE IF ~can.val
                 THEN CoderLoop(coder, instructions, i + 1, parsed_instructions, calls1)
                 ELSE LET parsed == CoderParseInstruction(coder, instruction, i)
                          calls2 == calls1 \cup {<<coder.name, "parse_instruction", i>>}
                      IN IF parsed.raises
                         THEN [raises |-> TRUE, val |-> <<>>, calls |-> calls2]
                         ELSE CoderLoop(coder, instructions, i + 1,
                                        parsed_instructions \o parsed.val, calls2)

\* BaseCoder.parse_transaction(raw_transaction) -> [raises, val, calls]
coder_parse_transaction(coder, raw_transaction) ==
    IF ContextRaises(raw_transaction) \/ all_instructions(raw_transaction).raises
    THEN [raises |-> TRUE, val |-> <<>>, calls |-> {}]
    ELSE CoderLoop(coder, all_instructions(raw_transaction).val, 0, <<>>, {})

\* results[name] = value of a dict
DictSet(dict, key, value) ==
    [k \in DOMAIN dict \cup {key} |-> IF k = key THEN value ELSE dict[k]]

IndexFirstOnly(dict, coder) ==
    [p \in DOMAIN dict \cup coder.program_ids |->
        IF p \in DOMAIN dict THEN dict[p] ELSE <<coder>>]
\* CoderRegistry.register: the loop over coder.program_ids
Index(dict, coder) ==
    [p \in DOMAIN dict \cup coder.program_ids |->
        IF p \in coder.program_ids
        THEN Append(IF p \in DOMAIN dict THEN dict[p] ELSE <<>>, coder)
        ELSE dict[p]]

\* CoderRegistry.get_coders_for_program
get_coders_for_program(dict, program_id) ==
    IF program_id \in DOMAIN dict THEN dict[program_id] ELSE <<>>

\* the loop storing the list of a coder whether it is empty or not
RECURSIVE RegistryLoopKeepEmpty(_, _, _, _, _)
RegistryLoopKeepEmpty(cs, k, raw_transaction, results, calls) ==
    IF k > Len(cs) THEN [raises |-> FALSE, val |-> results, calls |-> calls]
    ELSE LET r == coder_parse_transaction(cs[k], raw_transaction) IN
         IF r.raises THEN [raises |-> TRUE, val |-> EmptyDict, calls |-> calls \cup r.calls]
         ELSE RegistryLoopKeepEmpty(cs, k + 1, raw_transaction,
                                    DictSet(results, cs[k].name, r.val), calls \cup r.calls)

\* the loop of CoderRegistry.parse_transaction from coder k on:
\* -> [raises, val, calls]
RECURSIVE RegistryLoop(_, _, _, _, _)
RegistryLoop(cs, k, raw_transaction, results, calls) ==
    IF k > Len(cs) THEN [raises |-> FALSE, val |-> results, calls |-> calls]
    ELSE LET r == coder_parse_transaction(cs[k], raw_transaction) IN
         IF r.raises THEN [raises |-> TRUE, val |-> EmptyDict, calls |-> calls \cup r.calls]
         ELSE RegistryLoop(cs, k + 1, raw_transaction,
                           IF r.val # <<>> THEN DictSet(results, cs[k].name, r.val)
                           ELSE results,
                           calls \cup r.calls)

\* CoderRegistry.parse_transaction(raw_transaction) -> [raises, val, calls]
registry_parse_transaction(cs, raw_transaction) ==
    RegistryLoop(cs, 1, raw_transaction, EmptyDict, {})

-----------------------------------------------------------------------------
(* SpecRegistry: up to MaxCoders calls of register, and between them calls *)
(* of get_coders_for_program, get_all_coders and parse_transaction, on     *)
(* transactions of up to MaxParsed instructions.                           *)

MaxCoders == 2
MaxParsed == 2

Program1 == KeyAddr(1)
Program2 == KeyAddr(2)
Program3 == KeyAddr(3)

SampleCoders ==
    { Coder("SPL_Token", {SPL_TOKEN_PROGRAM_ID}, "spl"),
      Coder("A", {Program1}, "own"),
      Coder("B", {Program2}, "any"),
      Coder("C", {Program1, Program2}, "own"),
      Coder("D", {Program1}, "raise_parse"),
      Coder("E", {Program2}, "raise_can") }

SampleInstructions ==
    { InstructionField(Program1, <<Program1>>, TRUE, BadData, <<1>>),
      InstructionField(Program2, <<Program1>>, TRUE, B64(<<2>>), <<1>>),
      InstructionField(SPL_TOKEN_PROGRAM_ID, <<Program1, Program2, Program3>>, TRUE,
                       B64(SubSeq(TokenBuffer(3, <<513, 0, 0, 0>>, 6), 1, 9)), <<1>>) }

ParsedTransactions ==
    { ViewRecord(<<1>>, outer, ViewMeta(<<>>, <<>>, <<>>)) :
        outer \in SeqsUpTo(SampleInstructions, MaxParsed) }
      \cup { ViewRecord(<<1>>, <<>>, NoMetaOut) }

Returned(op, a, r) == [op |-> op, arg |-> a, raises |-> r.raises, val |-> r.val, calls |-> r.calls]

InitRegistry ==
    /\ RegistryEmpty
    /\ CallIdle
    /\ tx_data = Str("") /\ tx_src = SampleTx /\ decoded = NoDecode /\ dpc = "idle"
    /\ InitOthersIdleButCall
    /\ SourceIdle

Register ==
    /\ Len(coders) < MaxCoders
    /\ \E coder \in SampleCoders :
         /\ coders' = Append(coders, coder)
         /\ program_to_coders' = Index(program_to_coders, coder)
         /\ registered' = Append(registered, coder)
    /\ rret' = <<>>
    /\ UNCHANGED <<decodeVars, blockVars, viewVars, callVars>>
    /\ UNCHANGED sourceVars

GetCodersForProgram ==
    /\ \E program_id \in {Program1, Program2, Program3, SPL_TOKEN_PROGRAM_ID} :
         rret' = Returned("get_coders_for_program", program_id,
                     [raises |-> FALSE, calls |-> {},
                      val |-> get_coders_for_program(program_to_coders, program_id)])
    /\ UNCHANGED <<coders, program_to_coders, registered, decodeVars, blockVars,
                   viewVars, callVars>>
    /\ UNCHANGED sourceVars

GetAllCoders ==
    /\ rret' = Returned("get_all_coders", <<>>, [raises |-> FALSE, calls |-> {}, val |-> coders])
    /\ UNCHANGED <<coders, program_to_coders, registered, decodeVars, blockVars,
                   viewVars, callVars>>
    /\ UNCHANGED sourceVars

ParseTransaction ==
    /\ \E raw_transaction \in ParsedTransactions :
         rret' = Returned("parse_transaction", raw_transaction,
                          registry_parse_transaction(coders, raw_transaction))
    /\ UNCHANGED <<coders, program_to_coders, registered, decodeVars, blockVars,
                   viewVars, callVars>>
    /\ UNCHANGED sourceVars

NextRegistry == Register \/ GetCodersForProgram \/ GetAllCoders \/ ParseTransaction

SpecRegistry == InitRegistry /\ [][NextRegistry]_vars

-----------------------------------------------------------------------------
(* Claims about the registry (SpecRegistry) *)

ParseReturned == rret # <<>> /\ rret.op = "parse_transaction"
\* the instructions the coders were run on
ParsedInstructions == all_instructions(rret.arg).val
\* what a coder finds in the instructions, an instruction on which it raises
\* counting as one it does not match
RECURSIVE MatchesOf(_, _, _)
MatchesOf(coder, instructions, i) ==
    IF i >= Len(instructions) THEN <<>>
    ELSE LET can == CoderCanHandle(coder, instructions[i + 1])
             parsed == CoderParseInstruction(coder, instructions[i + 1], i)
         IN (IF ~can.raises /\ can.val /\ ~parsed.raises THEN parsed.val ELSE <<>>)
            \o MatchesOf(coder, instructions, i + 1)

(* C12: parse_transaction returns although a coder raises on an             *)
(* instruction, and holds for each coder what it finds in the instructions, *)
(* the instruction on which it raised counting as no match.                 *)
C12_RegistryCatches ==
    (ParseReturned /\ ~ContextRaises(rret.arg)) =>
        /\ ~rret.raises
        /\ \A k \in 1..Len(coders) :
             LET found == MatchesOf(coders[k], ParsedInstructions, 0) IN
             IF found = <<>> THEN coders[k].name \notin DOMAIN rret.val
             ELSE /\ coders[k].name \in DOMAIN rret.val
                  /\ \/ rret.val[coders[k].name] = found
                     \/ \E j \in (k + 1)..Len(coders) : coders[j].name = coders[k].name

(* C13: after any calls of register, get_coders_for_program(p) is the       *)
(* registered coders whose program_ids contain p, in registration order,    *)
(* empty when there is none; get_all_coders is the registered coders.       *)
C13_RegistryLookup ==
    /\ (rret # <<>> /\ rret.op = "get_coders_for_program") =>
          /\ rret.val = SelectSeq(registered, LAMBDA c : rret.arg \in c.program_ids)
          /\ (\A k \in 1..Len(registered) : rret.arg \notin registered[k].program_ids)
                => rret.val = <<>>
    /\ (rret # <<>> /\ rret.op = "get_all_coders") => rret.val = registered

\* two different coders that declare Program1 were registered and the
\* lookup of Program1 returned both, in registration order
C13_Witness ==
    /\ rret # <<>> /\ rret.op = "get_coders_for_program" /\ rret.arg = Program1
    /\ Len(registered) = 2 /\ registered[1] # registered[2]
    /\ rret.val = registered

(* C14: during parse_transaction a coder's can_handle and parse_instruction *)
(* are called on an instruction only if the coder is registered under the   *)
(* instruction's program address, and it contributes no ParsedInstruction   *)
(* for an instruction of another address.                                   *)
C14_OnlyRegisteredCodersInvoked ==
    ParseReturned =>
        /\ \A call \in rret.calls :
             \A k \in 1..Len(coders) :
                coders[k].name = call[1] =>
                    ParsedInstructions[call[3] + 1].programId \in coders[k].program_ids
        /\ ~rret.raises =>
             \A k \in 1..Len(coders) :
                coders[k].name \in DOMAIN rret.val =>
                    \A q \in 1..Len(rret.val[coders[k].name]) :
                        rret.val[coders[k].name][q].instruction.programId
                            \in coders[k].program_ids

-----------------------------------------------------------------------------
(* More claims about the conversion of a block (Spec) *)

(* C18: the records returned are in block order: each is the record of the  *)
(* transaction at the position its id names, and ids are strictly           *)
(* increasing along the output.                                             *)
C18_BlockOrder ==
    bpc = "done" =>
        /\ \A k \in 1..Len(raw_transactions) :
             /\ raw_transactions[k].id \in 0..(Len(Txs) - 1)
             /\ Converted(raw_transactions[k].id + 1).kind = "record"
             /\ raw_transactions[k] = Converted(raw_transactions[k].id + 1).rec
        /\ \A k, l \in 1..Len(raw_transactions) :
             k < l => raw_transactions[k].id < raw_transactions[l].id

\* two different transactions were converted, the first one first
C18_Witness ==
    /\ bpc = "done" /\ Len(raw_transactions) = 2
    /\ raw_transactions[1].id = 0 /\ raw_transactions[2].id = 1
    /\ Txs[1] # Txs[2]

(* C20: is_successful is true iff the error field of the record is null,    *)
(* which for a record of the converter is iff the provider's meta.err was   *)
(* null (a record without meta has no error field to read).                 *)
C20_SuccessfulIffNoError ==
    (vpc = "is_successful" /\ ~rtx.meta.isNone) =>
        /\ ~view.raises
        /\ view.val <=> rtx.meta.err = NoneVal
        /\ view.val <=> WrapperOf(rtx).meta.err = NoneVal

\* a record whose transaction failed was read as not successful
C20_Witness ==
    /\ vpc = "is_successful" /\ ~rtx.meta.isNone
    /\ ~view.raises /\ ~view.val
    /\ WrapperOf(rtx).meta.err = Str("InstructionError")

-----------------------------------------------------------------------------
(* TransactionErrorEnum.handle_error_field (transaction_errors.py).  The   *)
(* field value is a record [kind, name, keys, InstructionError,            *)
(* InsufficientFundsForRent]:                                              *)
(*   kind "none"    None                                                   *)
(*   kind "str"     the string name                                        *)
(*   kind "dict"    a dict with the given keys                             *)
(*   kind "struct"  a TransactionError: InstructionError is <<>> for None  *)
(*                  and <<index>> for the tuple (index, detail);           *)
(*                  InsufficientFundsForRent is "none", "empty" ({}) or    *)
(*                  "set" ({"account_index": n})                           *)
(*   kind "int"     a value of any other type                              *)

SUCCESS == -1
PROGRAM_ACCOUNT_NOT_FOUND == 3
INSUFFICIENT_FUNDS_FOR_FEE == 4
INSTRUCTION_ERROR == 8
INVALID_PROGRAM_FOR_EXECUTION == 13
UNKNOWN_ERROR == 22
MAX_LOADED_ACCOUNTS_DATA_SIZE_EXCEEDED == 23

FieldValue(kind, name, keys, ie, ifr) ==
    [kind |-> kind, name |-> name, keys |-> keys, InstructionError |-> ie,
     InsufficientFundsForRent |-> ifr]

\* TransactionErrorEnum(value): the member of that value, ValueError for none
EnumRaises(value) == value \notin SUCCESS..MAX_LOADED_ACCOUNTS_DATA_SIZE_EXCEEDED

\* TransactionError.error[0]
ErrorOf(field_value) ==
    IF EnumRaises(field_value.InstructionError[1]) THEN UNKNOWN_ERROR
    ELSE field_value.InstructionError[1]

Returns(value) == [raises |-> FALSE, val |-> value]
Raises == [raises |-> TRUE, val |-> UNKNOWN_ERROR]

\* handle_error_field(field_value) -> [raises, val]
handle_error_field(field_value) ==
    CASE field_value.kind = "dict" ->
            IF "InstructionError" \in field_value.keys THEN Returns(INSTRUCTION_ERROR)
            ELSE IF "InsufficientFundsForRent" \in field_value.keys
                 THEN Returns(INSUFFICIENT_FUNDS_FOR_FEE)
                 ELSE Raises
      [] field_value.kind = "none" -> Returns(SUCCESS)
      [] field_value.kind = "str" ->
            IF field_value.name = "MaxLoadedAccountsDataSizeExceeded"
            THEN Returns(MAX_LOADED_ACCOUNTS_DATA_SIZE_EXCEEDED)
            ELSE IF field_value.name = "ProgramAccountNotFound"
                 THEN Returns(PROGRAM_ACCOUNT_NOT_FOUND)
                 ELSE IF field_value.name = "InvalidProgramForExecution"
                      THEN Returns(INVALID_PROGRAM_FOR_EXECUTION)
                      ELSE Raises
      [] field_value.kind = "struct" ->
            IF field_value.InstructionError # <<>> THEN Returns(ErrorOf(field_value))
            ELSE IF field_value.InsufficientFundsForRent = "set"
                 THEN Returns(INSUFFICIENT_FUNDS_FOR_FEE)
                 ELSE Returns(UNKNOWN_ERROR)
      [] OTHER -> Raises

-----------------------------------------------------------------------------
(* SpecErrors: one call of handle_error_field on a field value: None, a    *)
(* string, a dict, a TransactionError whose instruction index is at most   *)
(* MaxErrIndex, or an int.                                                 *)

MaxErrIndex == 24

ErrorStrings ==
    { "MaxLoadedAccountsDataSizeExceeded", "ProgramAccountNotFound",
      "InvalidProgramForExecution", "AccountInUse", "BlockhashNotFound", "" }
DictKeys == { "InstructionError", "InsufficientFundsForRent", "DuplicateInstruction", "Ok" }

InitErrors ==
    /\ \/ arg = FieldValue("none", "", {}, <<>>, "none")
       \/ arg = FieldValue("int", "", {}, <<>>, "none")
       \/ \E name \in ErrorStrings : arg = FieldValue("str", name, {}, <<>>, "none")
       \/ \E keys \in SUBSET DictKeys : arg = FieldValue("dict", "", keys, <<>>, "none")
       \/ \E ie \in {<<>>} \cup { <<i>> : i \in 0..MaxErrIndex },
             ifr \in {"none", "empty", "set"} :
               arg = FieldValue("struct", "", {}, ie, ifr)
    /\ ret = <<>>
    /\ cpc = "ready"
    /\ tx_data = Str("") /\ tx_src = SampleTx /\ decoded = NoDecode /\ dpc = "idle"
    /\ InitOthersIdleButCall
    /\ RegistryEmpty
    /\ SourceIdle

HandleErrorField ==
    /\ cpc = "ready"
    /\ ret' = handle_error_field(arg)
    /\ cpc' = "handle_error_field"
    /\ UNCHANGED <<arg, decodeVars, blockVars, viewVars, registryVars>>
    /\ UNCHANGED sourceVars

NextErrors == HandleErrorField

SpecErrors == InitErrors /\ [][NextErrors]_vars

\* the strings and the dict shapes handle_error_field names
RecognisedString == arg.name \in { "MaxLoadedAccountsDataSizeExceeded", "ProgramAccountNotFound",
                                   "InvalidProgramForExecution" }
RecognisedDict == arg.keys \cap { "InstructionError", "InsufficientFundsForRent" } # {}

(* C19: handle_error_field maps null to SUCCESS and every error string or   *)
(* dict shape it does not recognise to UNKNOWN_ERROR, and never raises on   *)
(* one.                                                                     *)
C19_UnknownShapesDegrade ==
    cpc = "handle_error_field" =>
        /\ arg.kind = "none" => ret = Returns(SUCCESS)
        /\ (arg.kind = "str" /\ ~RecognisedString) => ret = Returns(UNKNOWN_ERROR)
        /\ (arg.kind = "dict" /\ ~RecognisedDict) => ret = Returns(UNKNOWN_ERROR)

-----------------------------------------------------------------------------
(* SpecCompact: one call of decode_compact_u16 at any offset of any short  *)
(* buffer, whole or cut short.                                              *)

MaxBuf == 3

\* the bytes at the borders of the three length classes
BufferBytes == { 0, 1, 127, 128, 191, 192, 255 }

InitCompact ==
    /\ \E data \in SeqsUpTo(BufferBytes, MaxBuf) : \E offset \in 0..(MaxBuf + 1) :
         arg = [data |-> data, offset |-> offset]
    /\ ret = <<>>
    /\ cpc = "ready"
    /\ tx_data = Str("") /\ tx_src = SampleTx /\ decoded = NoDecode /\ dpc = "idle"
    /\ InitOthersIdleButCall
    /\ RegistryEmpty
    /\ SourceIdle

DecodeCompactU16At ==
    /\ cpc = "ready"
    /\ ret' = decode_compact_u16(arg.data, arg.offset)
    /\ cpc' = "decode_compact_u16"
    /\ UNCHANGED <<arg, decodeVars, blockVars, viewVars, registryVars>>
    /\ UNCHANGED sourceVars

NextCompact == DecodeCompactU16At

SpecCompact == InitCompact /\ [][NextCompact]_vars

\* the number of bytes of the length class the byte at the offset selects
LengthClass ==
    IF arg.offset >= Len(arg.data) THEN 1
    ELSE LET first_byte == arg.data[arg.offset + 1] IN
         IF first_byte < 128 THEN 1 ELSE IF first_byte < 192 THEN 2 ELSE 3

(* C21: decode_compact_u16 returns value 0 and the offset it was given     *)
(* exactly when the buffer ends before the last byte of the length class   *)
(* the first byte selects (or the offset is at the end); otherwise the     *)
(* offset it returns is 1, 2 or 3 more, the size of the class.              *)
C21_NoProgressIffTruncated ==
    cpc = "decode_compact_u16" =>
        /\ ret = <<0, arg.offset>> <=> arg.offset + LengthClass > Len(arg.data)
        /\ ret[2] # arg.offset =>
             /\ ret[2] = arg.offset + LengthClass
             /\ ret[2] - arg.offset \in 1..3

\* a two- or three-byte count cut short, and the count 0 decoded
C21_Witness ==
    /\ cpc = "decode_compact_u16"
    /\ arg.offset < Len(arg.data)
    /\ arg.data[arg.offset + 1] >= 192
    /\ arg.offset + 2 = Len(arg.data)
    /\ ret = <<0, arg.offset>>

-----------------------------------------------------------------------------
(* SpecDecode: the calls of decode_compact_u16 inside decode_transaction.  *)

\* whether, from instruction i on, a call for the number of account indices
\* or for the data length returns the offset it was given
RECURSIVE InstructionLoopStalls(_, _, _, _)
InstructionLoopStalls(tx_bytes, i, num_instructions, offset) ==
    IF i >= num_instructions \/ offset >= Len(tx_bytes) THEN FALSE
    ELSE LET nai == decode_compact_u16(tx_bytes, offset + 1)
             idx == IndexLoop(tx_bytes, 0, nai[1], nai[2], <<>>)
             dl == decode_compact_u16(tx_bytes, idx[2])
             fits == dl[2] + dl[1] <= Len(tx_bytes)
             offset2 == IF fits THEN dl[2] + dl[1] ELSE dl[2]
         IN \/ nai[2] = offset + 1
            \/ dl[2] = idx[2]
            \/ InstructionLoopStalls(tx_bytes, i + 1, num_instructions, offset2)

\* whether one of the calls of decode_compact_u16 that decode_transaction(data)
\* makes returns the offset it was given
NoProgress(data) ==
    IF B64DecodeRaises(data) THEN FALSE
    ELSE LET tx_bytes == B64Decode(data) IN
    IF Len(tx_bytes) < 1 THEN FALSE
    ELSE LET o1 == SignatureLoop(tx_bytes, 0, tx_bytes[1], 1, <<>>)[2] IN
    IF o1 + 3 > Len(tx_bytes) THEN FALSE
    ELSE LET hdr == <<tx_bytes[o1 + 1], tx_bytes[o1 + 2], tx_bytes[o1 + 3]>>
             na == decode_compact_u16(tx_bytes, o1 + 3)
             o2 == AccountLoop(tx_bytes, 0, na[1], hdr, na[2], <<>>)[2]
             o3 == IF o2 + KEY_LEN <= Len(tx_bytes) THEN o2 + KEY_LEN ELSE o2
             ni == decode_compact_u16(tx_bytes, o3)
         IN \/ na[2] = o1 + 3
            \/ ni[2] = o3
            \/ InstructionLoopStalls(tx_bytes, 0, ni[1], ni[2])

(* C22: when a call of decode_compact_u16 inside decode_transaction makes  *)
(* no progress, decode_transaction gives up on the transaction: it returns *)
(* no account keys, no instructions and no blockhash (the shape of its     *)
(* early returns and of its except clause) instead of going on with the    *)
(* count 0.                                                                 *)
C22_NoProgressAborts ==
    (dpc = "done" /\ NoProgress(tx_data)) =>
        /\ decoded.account_keys = <<>>
        /\ decoded.instructions = <<>>
        /\ decoded.recent_blockhash = Str("")

-----------------------------------------------------------------------------
(* Spec: the inner instructions of the records.                            *)

\* neither a log line "Program <address> invoke [d]" for the stack height
\* of ix nor a program index within the account keys of the record
Unattributable(ix, logMessages, accountKeys) ==
    /\ ix.stackHeight = <<>> \/ InvokeLines(logMessages, ix.stackHeight[1]) = {}
    /\ ix.programIdIndex >= Len(accountKeys)

(* C23: every inner group of the metadata of a wrapper is in its record,   *)
(* at the same position, with the same outer index and the same number of  *)
(* instructions in the same order, each with its stack height and data; an *)
(* instruction that cannot be attributed has the program address           *)
(* "unknown".                                                               *)
C23_InnerInstructionsKept ==
    bpc = "done" =>
        \A k \in 1..Len(raw_transactions) :
            LET rec == raw_transactions[k]
                given == WrapperOf(rec).meta
                groups == rec.meta.innerInstructions
            IN ~given.isNone =>
                 /\ Len(groups) = Len(given.innerInstructions)
                 /\ \A g \in 1..Len(groups) :
                      LET src == given.innerInstructions[g] IN
                      /\ groups[g].index = src.index
                      /\ Len(groups[g].instructions) = Len(src.instructions)
                      /\ \A m \in 1..Len(src.instructions) :
                           LET ix == groups[g].instructions[m] IN
                           /\ ix.stackHeight = src.instructions[m].stackHeight
                           /\ ix.data = src.instructions[m].data
                           /\ Unattributable(src.instructions[m], given.logMessages,
                                             rec.accountKeys)
                                => ix.programId = Str("unknown")

\* a record of several inner groups, one of them empty, holding an
\* instruction that cannot be attributed
C23_Witness ==
    /\ bpc = "done"
    /\ \E k \in 1..Len(raw_transactions) :
         LET rec == raw_transactions[k]
             given == WrapperOf(rec).meta
         IN /\ ~given.isNone
            /\ Len(rec.meta.innerInstructions) >= 2
            /\ \E g \in 1..Len(rec.meta.innerInstructions) :
                 rec.meta.innerInstructions[g].instructions = <<>>
            /\ \E g \in 1..Len(given.innerInstructions) :
                 \E m \in 1..Len(given.innerInstructions[g].instructions) :
                     /\ Unattributable(given.innerInstructions[g].instructions[m],
                                       given.logMessages, rec.accountKeys)
                     /\ rec.meta.innerInstructions[g].instructions[m].programId = Str("unknown")

-----------------------------------------------------------------------------
(* SpecEval: the three derived views of one record read any number of      *)
(* times in any order within one process.  The records have two outer      *)
(* instructions and up to MaxGroups inner groups of MaxInner instructions   *)
(* in all, each with a parsed payload of ParsedSamples, or token balance    *)
(* entries in the two snapshots.  arg keeps the record as it was before     *)
(* the first read and the order in which the process iterates the set       *)
(* all_pairs (the hash of a str is fixed for the life of a process); ret    *)
(* keeps the first result of each view.                                     *)

ParsedSamples ==
    { NoneVal,
      Str("text"),
      ParsedDict(Str("transfer"), Info(KeyAddr(1), KeyAddr(2), NoneVal, <<5>>)),
      ParsedDict(Str("transfer"), Info(KeyAddr(1), NoneVal, KeyAddr(3), <<0>>)),
      ParsedDict(Str("transfer"), Info(KeyAddr(1), KeyAddr(2), NoneVal, <<>>)),
      ParsedDict(Str("transfer"), NoInfo),
      ParsedDict(Str("transfer"), Info(NoneVal, KeyAddr(2), NoneVal, <<5>>)),
      ParsedDict(Str("createAccount"), Info(KeyAddr(1), NoneVal, KeyAddr(3), <<7>>)),
      ParsedDict(NoneVal, Info(KeyAddr(1), KeyAddr(2), NoneVal, <<5>>)) }

\* an inner instruction as a provider gives it in parsed form
ParsedIx(parsed, h) ==
    [InstructionField(KeyAddr(4), <<>>, FALSE, NoneVal, h) EXCEPT !.parsed = parsed]

EvalInstructions ==
    { ParsedIx(p, <<2>>) : p \in ParsedSamples }
        \cup { ParsedIx(ParsedDict(Str("transfer"), Info(KeyAddr(2), KeyAddr(1), NoneVal, <<9>>)), <<1>>) }

EvalEntries ==
    { TokenEntry(0, 7, <<5>>), TokenEntry(1, 7, <<0>>), TokenEntry(1, 8, <<1, 5>>) }

NoFirst == [all_instructions |-> <<>>, native_transfers |-> <<>>, token_transfers |-> <<>>]

InitEval ==
    /\ \/ \E sizes \in GroupSizes :
            \E indices \in [1..Len(sizes) -> 0..1],
               ixs \in [1..Sum(sizes) -> EvalInstructions] :
                rtx = ViewRecord(<<1>>, <<OuterIx(1), OuterIx(2)>>,
                          ViewMeta([g \in 1..Len(sizes) |->
                                      [index |-> indices[g],
                                       instructions |->
                                          [m \in 1..sizes[g] |->
                                              ixs[Sum(SubSeq(sizes, 1, g - 1)) + m]]]],
                                   <<>>, <<>>))
       \/ \E pre \in SeqsUpTo(EvalEntries, 1), post \in SeqsUpTo(EvalEntries, MaxBal) :
            rtx = ViewRecord(<<1, 2>>, <<OuterIx(1)>>, ViewMeta(<<>>, pre, post))
    /\ \E order \in IterationOrders(rtx) : arg = [record |-> rtx, order |-> order]
    /\ ret = NoFirst
    /\ cpc = "idle"
    /\ view = NoView
    /\ vpc = "idle"
    /\ tx_data = Str("") /\ tx_src = SampleTx /\ decoded = NoDecode /\ dpc = "idle"
    /\ block = [transactions |-> <<>>, blockTime |-> <<>>, slot |-> 0]
    /\ raw_transactions = <<>> /\ raised = FALSE /\ bpc = "idle"
    /\ RegistryEmpty
    /\ SourceIdle

\* ret with the result of a view that is read for the first time
FirstKept(name, result) ==
    IF ret[name] = <<>> THEN [ret EXCEPT ![name] = <<result>>] ELSE ret

EvalAllInstructions ==
    /\ view' = all_instructions(rtx)
    /\ rtx' = RecordAfterSorted(rtx)
    /\ vpc' = "all_instructions"
    /\ ret' = FirstKept("all_instructions", all_instructions(rtx))
    /\ UNCHANGED <<arg, cpc, decodeVars, blockVars, registryVars>>
    /\ UNCHANGED sourceVars

EvalNativeTransfers ==
    /\ view' = native_transfers(rtx)
    /\ vpc' = "native_transfers"
    /\ ret' = FirstKept("native_transfers", native_transfers(rtx))
    /\ UNCHANGED <<rtx, arg, cpc, decodeVars, blockVars, registryVars>>
    /\ UNCHANGED sourceVars

EvalTokenTransfers ==
    /\ view' = token_transfers(rtx, arg.order)
    /\ vpc' = "token_transfers"
    /\ ret' = FirstKept("token_transfers", token_transfers(rtx, arg.order))
    /\ UNCHANGED <<rtx, arg, cpc, decodeVars, blockVars, registryVars>>
    /\ UNCHANGED sourceVars

NextEval == EvalAllInstructions \/ EvalNativeTransfers \/ EvalTokenTransfers

SpecEval == InitEval /\ [][NextEval]_vars

(* C24: each of all_instructions, native_transfers and token_transfers,    *)
(* read again after any reads of the three, returns what it returned the   *)
(* first time, and the outer instructions, inner groups and token balance  *)
(* snapshots of the record are as they were before the first read.         *)
C24_ViewsRestartable ==
    /\ vpc # "idle" => ret[vpc] = <<view>>
    /\ rtx.instructions = arg.record.instructions
    /\ rtx.meta.innerInstructions = arg.record.meta.innerInstructions
    /\ rtx.meta.preTokenBalances = arg.record.meta.preTokenBalances
    /\ rtx.meta.postTokenBalances = arg.record.meta.postTokenBalances

\* all three views have been read, all_instructions last, on a record with
\* an inner group that is not in stack-height order
C24_Witness ==
    /\ vpc = "all_instructions"
    /\ ret.native_transfers # <<>> /\ ret.token_transfers # <<>>
    /\ ~view.raises
    /\ \E g \in 1..Len(rtx.meta.innerInstructions) :
         LET ixs == rtx.meta.innerInstructions[g].instructions IN
         ixs # SortedByStackHeight(ixs)

-----------------------------------------------------------------------------
(* SpecShared: one registry shared by two decode operations.  Coders are   *)
(* registered at startup; once registration is over the two operations run *)
(* CoderRegistry.parse_transaction on one record, interleaved at every     *)
(* iteration of the loops of lines 191 and 119, with lookups in between.   *)
(* ret[p] holds the locals of operation p: the position k in self._coders, *)
(* the position i in all_instructions, parsed_instructions and results.    *)

Ops == {1, 2}

SharedCoders ==
    { Coder("SPL_Token", {SPL_TOKEN_PROGRAM_ID}, "spl"),
      Coder("A", {Program1}, "own"),
      Coder("D", {Program1, Program2}, "raise_parse") }

SharedRecords ==
    { ViewRecord(<<1>>, <<a, b>>, ViewMeta(<<>>, <<>>, <<>>)) :
        a \in SampleInstructions, b \in { x \in SampleInstructions : x.programId # Program1 } }
      \cup { ViewRecord(<<1>>, <<>>, NoMetaOut) }

\* the locals of an operation that has not started
OpIdle ==
    [pc |-> "idle", k |-> 1, i |-> 0, parsed_instructions |-> <<>>, results |-> EmptyDict,
     raises |-> FALSE]

\* CoderRegistry.get_coders_for_instruction -> [raises, val]
get_coders_for_instruction(dict, instruction) ==
    LET potential_coders == get_coders_for_program(dict, instruction.programId) IN
    [raises |-> \E c \in 1..Len(potential_coders) :
                    CoderCanHandle(potential_coders[c], instruction).raises,
     val |-> SelectSeq(potential_coders,
                       LAMBDA coder : CoderCanHandle(coder, instruction).val)]

\* the operation whose frame holds the dict results of line 189: a local of
\* the call
ResultsStoreShared(p) == 1
ResultsStore(p) == p

InitShared ==
    /\ RegistryEmpty
    /\ cpc = "registration"
    /\ arg = <<>>
    /\ ret = [p \in Ops |-> OpIdle]
    /\ rtx \in SharedRecords
    /\ view = NoneVal /\ vpc = "idle"
    /\ tx_data = Str("") /\ tx_src = SampleTx /\ decoded = NoDecode /\ dpc = "idle"
    /\ block = [transactions |-> <<>>, blockTime |-> <<>>, slot |-> 0]
    /\ raw_transactions = <<>> /\ raised = FALSE /\ bpc = "idle"
    /\ SourceIdle

RegisterAtStartup ==
    /\ cpc = "registration"
    /\ Len(coders) < MaxCoders
    /\ \E coder \in SharedCoders :
         /\ coders' = Append(coders, coder)
         /\ program_to_coders' = Index(program_to_coders, coder)
         /\ registered' = Append(registered, coder)
    /\ UNCHANGED <<rret, decodeVars, blockVars, viewVars, callVars>>
    /\ UNCHANGED sourceVars

\* registration is over: arg remembers the registry and the record
EndRegistration ==
    /\ cpc = "registration"
    /\ cpc' = "decoding"
    /\ arg' = [coders |-> coders, program_to_coders |-> program_to_coders, record |-> rtx]
    /\ UNCHANGED <<ret, registryVars, decodeVars, blockVars, viewVars>>
    /\ UNCHANGED sourceVars

StartParse ==
    /\ cpc = "decoding"
    /\ \E p \in Ops :
         /\ ret[p].pc = "idle"
         /\ ret' = [ret EXCEPT ![p].pc = "run"]
    /\ UNCHANGED <<arg, cpc, registryVars, decodeVars, blockVars, viewVars>>
    /\ UNCHANGED sourceVars

\* the locals of operation p after an exception has left parse_transaction
Raised(p) == [ret EXCEPT ![p].pc = "done", ![p].raises = TRUE]

\* one iteration of the loop of line 119 for the coder of line 191, or the
\* end of one of the two loops
StepParse ==
    /\ cpc = "decoding"
    /\ \E p \in Ops :
         LET l == ret[p] IN
         /\ l.pc = "run"
         /\ ret' =
              IF l.k > Len(coders) THEN [ret EXCEPT ![p].pc = "done"]
              ELSE IF l.i = 0 /\ (ContextRaises(rtx) \/ all_instructions(rtx).raises)
              THEN Raised(p)
              ELSE LET coder == coders[l.k]
                       instructions == all_instructions(rtx).val
                   IN IF l.i >= Len(instructions)
                      THEN [ret EXCEPT
                              ![ResultsStore(p)].results =
                                  IF l.parsed_instructions # <<>>
                                  THEN DictSet(@, coder.name, l.parsed_instructions)
                                  ELSE @,
                              ![p].k = l.k + 1, ![p].i = 0,
                              ![p].parsed_instructions = <<>>]
                      ELSE LET instruction == instructions[l.i + 1]
                               can == CoderCanHandle(coder, instruction)
                               parsed == CoderParseInstruction(coder, instruction, l.i)
                           IN IF can.raises THEN Raised(p)
                              ELSE IF ~can.val THEN [ret EXCEPT ![p].i = l.i + 1]
                              ELSE IF parsed.raises THEN Raised(p)
                              ELSE [ret EXCEPT ![p].i = l.i + 1,
                                               ![p].parsed_instructions = @ \o parsed.val]
    /\ UNCHANGED <<arg, cpc, rtx, view, vpc, registryVars, decodeVars, blockVars>>
    /\ UNCHANGED sourceVars

LookupProgram ==
    /\ cpc = "decoding"
    /\ \E program_id \in {Program1, Program3} :
         rret' = Returned("get_coders_for_program", program_id,
                     [raises |-> FALSE, calls |-> {},
                      val |-> get_coders_for_program(program_to_coders, program_id)])
    /\ UNCHANGED <<coders, program_to_coders, registered, decodeVars, blockVars,
                   viewVars, callVars>>
    /\ UNCHANGED sourceVars

LookupInstruction ==
    /\ cpc = "decoding"
    /\ \E instruction \in { x \in SampleInstructions : x.programId # Program2 } :
         LET r == get_coders_for_instruction(program_to_coders, instruction) IN
         rret' = Returned("get_coders_for_instruction", instruction,
                     [raises |-> r.raises, calls |-> {}, val |-> r.val])
    /\ UNCHANGED <<coders, program_to_coders, registered, decodeVars, blockVars,
                   viewVars, callVars>>
    /\ UNCHANGED sourceVars

LookupAll ==
    /\ cpc = "decoding"
    /\ rret' = Returned("get_all_coders", <<>>, [raises |-> FALSE, calls |-> {}, val |-> coders])
    /\ UNCHANGED <<coders, program_to_coders, registered, decodeVars, blockVars,
                   viewVars, callVars>>
    /\ UNCHANGED sourceVars

NextShared ==
    \/ RegisterAtStartup \/ EndRegistration \/ StartParse \/ StepParse
    \/ LookupProgram \/ LookupInstruction \/ LookupAll

SpecShared == InitShared /\ [][NextShared]_vars

(* C25: once registration is over, the coder list and the program index    *)
(* of the registry and the record stay as they were through every          *)
(* interleaving of two parse_transaction calls and of lookups; each call   *)
(* returns (or raises) as parse_transaction run alone on that registry and *)
(* record does, and each lookup returns what the registry as left by       *)
(* registration gives.                                                     *)
C25_RegistryReadOnly ==
    cpc = "decoding" =>
        /\ coders = arg.coders
        /\ program_to_coders = arg.program_to_coders
        /\ rtx = arg.record
        /\ \A p \in Ops :
             ret[p].pc = "done" =>
                 LET alone == registry_parse_transaction(arg.coders, arg.record) IN
                 /\ ret[p].raises = alone.raises
                 /\ ~alone.raises => ret[p].results = alone.val
        /\ rret # <<>> =>
             /\ rret.op = "get_all_coders" => rret.val = arg.coders
             /\ rret.op = "get_coders_for_program" =>
                    rret.val = get_coders_for_program(arg.program_to_coders, rret.arg)
             /\ rret.op = "get_coders_for_instruction" =>
                    rret.val = get_coders_for_instruction(arg.program_to_coders, rret.arg).val

\* both calls have returned a mapping that is not empty, on a registry of
\* two coders, and a lookup has been made
C25_Witness ==
    /\ cpc = "decoding"
    /\ \A p \in Ops : ret[p].pc = "done" /\ ~ret[p].raises /\ DOMAIN ret[p].results # {}
    /\ rret # <<>>
    /\ Len(coders) = 2

-----------------------------------------------------------------------------
(* Claims about native_transfers (SpecEval) *)

\* the inner instructions <<group, position>> of the record whose parsed
\* payload is a dict of type "transfer" with a lamports amount
LamportTransfers ==
    { q \in (1..Len(rtx.meta.innerInstructions)) \X (1..MaxInner) :
        /\ q[2] <= Len(rtx.meta.innerInstructions[q[1]].instructions)
        /\ LET ix == rtx.meta.innerInstructions[q[1]].instructions[q[2]] IN
           /\ ix.parsed.enc = "dict"
           /\ ix.parsed.type = Str("transfer")
           /\ ix.parsed.info.lamports # <<>> }

\* the place of q among them, in group order then instruction order
PlaceOf(q) ==
    1 + Cardinality({ r \in LamportTransfers :
                        r[1] < q[1] \/ (r[1] = q[1] /\ r[2] < q[2]) })

(* C26: native_transfers returns one entry for each inner instruction      *)
(* whose parsed payload is of type "transfer" with a lamports amount and   *)
(* nothing else, in group order then instruction order, each with the      *)
(* lamports as amount and the outer index of its group as                  *)
(* instruction_index.                                                      *)
C26_NativeTransfers ==
    vpc = "native_transfers" =>
        /\ ~view.raises
        /\ Len(view.val) = Cardinality(LamportTransfers)
        /\ \A q \in LamportTransfers :
             LET ix == rtx.meta.innerInstructions[q[1]].instructions[q[2]] IN
             /\ view.val[PlaceOf(q)].amount = ix.parsed.info.lamports[1]
             /\ view.val[PlaceOf(q)].instruction_index = rtx.meta.innerInstructions[q[1]].index

-----------------------------------------------------------------------------
(* SpecBytes: decode_transaction on arbitrary bytes, with the offsets it   *)
(* goes through and the indices of tx_bytes it reads.  A trace is          *)
(* [offsets, reads]: the successive values of the variable offset, and the *)
(* set of the indices subscripted or sliced.  Subscripting an index that   *)
(* is not below len(tx_bytes) raises IndexError, which ends the trace.     *)

Moved(t, offset, reads) ==
    [offsets |-> Append(t.offsets, offset), reads |-> t.reads \cup reads]

\* the indices decode_compact_u16(data, offset) reads
CompactReads(data, offset) ==
    IF offset >= Len(data) THEN {}
    ELSE LET first_byte == data[offset + 1] IN
         IF first_byte < 128 THEN {offset}
         ELSE IF first_byte < 192
              THEN IF offset + 1 >= Len(data) THEN {offset} ELSE {offset, offset + 1}
              ELSE IF offset + 2 >= Len(data) THEN {offset} ELSE offset..(offset + 2)

\* a trace after "value, offset = decode_compact_u16(tx_bytes, offset)"
CompactTrace(tx_bytes, offset, t) ==
    Moved(t, decode_compact_u16(tx_bytes, offset)[2], CompactReads(tx_bytes, offset))

RECURSIVE SignatureTrace(_, _, _, _, _)
SignatureTrace(tx_bytes, i, num_signatures, offset, t) ==
    IF i >= num_signatures \/ offset + SIG_LEN > Len(tx_bytes) THEN t
    ELSE SignatureTrace(tx_bytes, i + 1, num_signatures, offset + SIG_LEN,
             Moved(t, offset + SIG_LEN, offset..(offset + SIG_LEN - 1)))

RECURSIVE AccountTrace(_, _, _, _, _)
AccountTrace(tx_bytes, i, num_accounts, offset, t) ==
    IF i >= num_accounts THEN t
    ELSE IF offset + KEY_LEN > Len(tx_bytes)
         THEN AccountTrace(tx_bytes, i + 1, num_accounts, offset, Moved(t, offset, {}))
         ELSE AccountTrace(tx_bytes, i + 1, num_accounts, offset + KEY_LEN,
                  Moved(t, offset + KEY_LEN, offset..(offset + KEY_LEN - 1)))

RECURSIVE IndexTrace(_, _, _, _, _)
IndexTrace(tx_bytes, j, num_account_indices, offset, t) ==
    IF j >= num_account_indices THEN t
    ELSE IF offset < Len(tx_bytes)
         THEN IndexTrace(tx_bytes, j + 1, num_account_indices, offset + 1,
                  Moved(t, offset + 1, {offset}))
         ELSE IndexTrace(tx_bytes, j + 1, num_account_indices, offset, t)

\* the test of the instruction loop: the range of line 120 and the break of
\* lines 121-122
LoopContinuesNoBreak(tx_bytes, i, num_instructions, offset) == i < num_instructions
LoopContinues(tx_bytes, i, num_instructions, offset) ==
    i < num_instructions /\ offset < Len(tx_bytes)

RECURSIVE InstructionTrace(_, _, _, _, _)
InstructionTrace(tx_bytes, i, num_instructions, offset, t) ==
    IF ~LoopContinues(tx_bytes, i, num_instructions, offset) THEN t
    ELSE IF offset >= Len(tx_bytes) THEN Moved(t, offset, {offset})
    ELSE LET t1 == Moved(t, offset + 1, {offset})
             nai == decode_compact_u16(tx_bytes, offset + 1)
             t2 == CompactTrace(tx_bytes, offset + 1, t1)
             t3 == IndexTrace(tx_bytes, 0, nai[1], nai[2], t2)
             o3 == t3.offsets[Len(t3.offsets)]
             dl == decode_compact_u16(tx_bytes, o3)
             t4 == CompactTrace(tx_bytes, o3, t3)
             t5 == IF dl[2] + dl[1] <= Len(tx_bytes)
                   THEN Moved(t4, dl[2] + dl[1], dl[2]..(dl[2] + dl[1] - 1))
                   ELSE t4
         IN InstructionTrace(tx_bytes, i + 1, num_instructions,
                             t5.offsets[Len(t5.offsets)], t5)

\* the trace of decode_transaction on the bytes tx_bytes
DecodeTrace(tx_bytes) ==
    LET t0 == [offsets |-> <<0>>, reads |-> {}] IN
    IF Len(tx_bytes) < 1 THEN t0
    ELSE LET t1 == SignatureTrace(tx_bytes, 0, tx_bytes[1], 1, Moved(t0, 1, {0}))
             o1 == t1.offsets[Len(t1.offsets)]
         IN
    IF o1 + 3 > Len(tx_bytes) THEN t1
    ELSE LET hdr == <<tx_bytes[o1 + 1], tx_bytes[o1 + 2], tx_bytes[o1 + 3]>>
             t2 == Moved(t1, o1 + 3, o1..(o1 + 2))
             na == decode_compact_u16(tx_bytes, o1 + 3)
             t3 == AccountTrace(tx_bytes, 0, na[1], na[2], CompactTrace(tx_bytes, o1 + 3, t2))
             o2 == t3.offsets[Len(t3.offsets)]
             t4 == IF o2 + KEY_LEN <= Len(tx_bytes)
                   THEN Moved(t3, o2 + KEY_LEN, o2..(o2 + KEY_LEN - 1))
                   ELSE t3
             o3 == t4.offsets[Len(t4.offsets)]
             ni == decode_compact_u16(tx_bytes, o3)
         IN InstructionTrace(tx_bytes, 0, ni[1], ni[2], CompactTrace(tx_bytes, o3, t4))

MaxTail == 6

\* the bytes at the borders of the length classes that keep a count small
CountBytes == { 0, 1, 2, 128, 192 }

\* no count that can be decoded from the bytes is above MaxCount: a loop of
\* decode_transaction runs as many times as the count says
MaxCount == 4
CountsSmall(bytes) ==
    \A o \in 0..(Len(bytes) - 1) : decode_compact_u16(bytes, o)[1] <= MaxCount

\* a transaction with a byte overwritten
Overwritten(t, at, byte) == [EncodeTransaction(t) EXCEPT ![at] = byte]

InitBytes ==
    /\ \/ \E tail \in SeqsUpTo(CountBytes, MaxTail) :
            CountsSmall(tail) /\ tx_data = B64(<<0, 1, 0, 0>> \o tail)
       \/ \E head \in SeqsUpTo(CountBytes \cup {255}, 2) : tx_data = B64(head)
       \/ \E t \in {SampleTx, SampleTxNoSig} :
            \E c \in 0..Len(EncodeTransaction(t)) : tx_data = Payload(t, c)
       \/ \E t \in {SampleTx, SampleTxNoSig} :
            \E at \in 1..Len(EncodeTransaction(t)), byte \in {0, 3, 128} :
                tx_data = B64(Overwritten(t, at, byte))
    /\ tx_src = SampleTx
    /\ decoded = NoDecode
    /\ dpc = "ready"
    /\ InitOthersIdleButCall
    /\ arg = <<>> /\ ret = <<>> /\ cpc = "idle"
    /\ RegistryEmpty
    /\ SourceIdle

\* decode_transaction, ret keeping the trace of the call
DecodeBytes ==
    /\ dpc = "ready"
    /\ decoded' = decode_transaction(tx_data)
    /\ ret' = DecodeTrace(B64Decode(tx_data))
    /\ dpc' = "done"
    /\ UNCHANGED <<tx_data, tx_src, arg, cpc, blockVars, viewVars, registryVars>>
    /\ UNCHANGED sourceVars

NextBytes == DecodeBytes

SpecBytes == InitBytes /\ [][NextBytes]_vars

(* C27: through decode_transaction the offset is never below 0, never      *)
(* above len(tx_bytes) and never decreases, and every index read is below  *)
(* len(tx_bytes).                                                          *)
C27_OffsetsInBounds ==
    dpc = "done" =>
        LET n == Len(B64Decode(tx_data)) IN
        /\ \A k \in 1..Len(ret.offsets) : ret.offsets[k] >= 0 /\ ret.offsets[k] <= n
        /\ \A k \in 1..(Len(ret.offsets) - 1) : ret.offsets[k] <= ret.offsets[k + 1]
        /\ \A x \in ret.reads : x >= 0 /\ x < n

\* a payload whose counts promise more than the buffer holds: the offset
\* has reached the end of the buffer inside the instruction loop
C27_Witness ==
    /\ dpc = "done"
    /\ Len(B64Decode(tx_data)) >= 6
    /\ ret.offsets[Len(ret.offsets)] = Len(B64Decode(tx_data))
    /\ decoded.instructions # <<>>
    /\ NoProgress(tx_data)

-----------------------------------------------------------------------------
(* Spec: the derived views of the records of a block.                      *)

(* C28: on every record convert_block_to_raw_transactions returns,         *)
(* is_successful, all_instructions, native_transfers and token_transfers   *)
(* return without raising, and so does the TransactionContext that         *)
(* parse_transaction builds from them.                                     *)
C28_ViewsNeverRaise ==
    bpc = "done" =>
        \A k \in 1..Len(raw_transactions) :
            LET r == raw_transactions[k] IN
            /\ ~is_successful(r).raises
            /\ ~all_instructions(r).raises
            /\ ~native_transfers(r).raises
            /\ \A order \in IterationOrders(r) : ~token_transfers(r, order).raises
            /\ ~ContextRaises(r)

-----------------------------------------------------------------------------
(* SpecRegistry: the mapping parse_transaction returns.                    *)

-----------------------------------------------------------------------------
(* SpecSource: one SolanaRPCDataSource used by several coroutines of one   *)
(* event loop.  A coroutine runs without interruption from one await to    *)
(* the next: connect has no await and runs whole; disconnect is suspended  *)
(* at "await self.session.close()"; _make_rpc_call tests the session and   *)
(* calls session.post before its first await.  A ClientSession is named by *)
(* a number from 1 on in order of creation, None is 0; arg counts the      *)
(* sessions created so far.  A task keeps what its last call saw: the      *)
(* call, the session before and after it, whether a disconnect was         *)
(* suspended at that time, and its outcome.                                *)

MaxSessions == 3
Tasks == {1, 2, 3}

\* a task that has made no call
TaskIdle == [pc |-> "idle", last |-> "none", before |-> 0, after |-> 0, during |-> FALSE,
             outcome |-> "none"]

InitSource ==
    /\ session = 0
    /\ connected = FALSE
    /\ tasks = [t \in Tasks |-> TaskIdle]
    /\ arg = 0
    /\ ret = <<>> /\ cpc = "idle"
    /\ tx_data = Str("") /\ tx_src = SampleTx /\ decoded = NoDecode /\ dpc = "idle"
    /\ InitOthersIdleButCall
    /\ RegistryEmpty

SomeClosing == \E t \in Tasks : tasks[t].pc = "closing"

\* self.session after the test and assignment of lines 53-54; made is the
\* number of sessions created so far
SessionAlwaysNew(s, made) == made + 1
SessionAfterConnect(s, made) == IF s = 0 THEN made + 1 ELSE s

\* connect(): lines 53-56, no await
Connect ==
    /\ arg < MaxSessions
    /\ \E t \in Tasks :
         /\ tasks[t].pc = "idle"
         /\ session' = SessionAfterConnect(session, arg)
         /\ arg' = IF session' = session THEN arg ELSE arg + 1
         /\ connected' = TRUE
         /\ tasks' = [tasks EXCEPT ![t] =
                [pc |-> "idle", last |-> "connect", before |-> session, after |-> session',
                 during |-> SomeClosing, outcome |-> "returned"]]
    /\ UNCHANGED <<ret, cpc, decodeVars, blockVars, viewVars, registryVars>>

\* disconnect() up to its await (line 61), or whole when no session is held
DisconnectStart ==
    /\ \E t \in Tasks :
         /\ tasks[t].pc = "idle"
         /\ IF session # 0
            THEN /\ tasks' = [tasks EXCEPT ![t] =
                        [pc |-> "closing", last |-> "disconnect", before |-> session,
                         after |-> session, during |-> SomeClosing, outcome |-> "suspended"]]
                 /\ UNCHANGED <<session, connected>>
            ELSE /\ connected' = FALSE
                 /\ tasks' = [tasks EXCEPT ![t] =
                        [pc |-> "idle", last |-> "disconnect", before |-> 0, after |-> 0,
                         during |-> SomeClosing, outcome |-> "returned"]]
                 /\ UNCHANGED session
    /\ UNCHANGED <<arg, ret, cpc, decodeVars, blockVars, viewVars, registryVars>>

\* disconnect() from the return of session.close() on: lines 62-63
DisconnectResume ==
    /\ \E t \in Tasks :
         /\ tasks[t].pc = "closing"
         /\ session' = 0
         /\ connected' = FALSE
         /\ tasks' = [tasks EXCEPT ![t].pc = "idle", ![t].after = 0,
                                   ![t].outcome = "returned"]
    /\ UNCHANGED <<arg, ret, cpc, decodeVars, blockVars, viewVars, registryVars>>

\* _make_rpc_call up to its first await: RuntimeError when no session is
\* held, otherwise the request is handed to session.post
MakeRpcCall ==
    /\ \E t \in Tasks :
         /\ tasks[t].pc = "idle"
         /\ tasks' = [tasks EXCEPT ![t] =
                [pc |-> "idle", last |-> "rpc", before |-> session, after |-> session,
                 during |-> SomeClosing,
                 outcome |-> IF session = 0 THEN "raised" ELSE "sent"]]
    /\ UNCHANGED <<session, connected, arg, ret, cpc, decodeVars, blockVars, viewVars,
                   registryVars>>

NextSource == Connect \/ DisconnectStart \/ DisconnectResume \/ MakeRpcCall

SpecSource == InitSource /\ [][NextSource]_vars

(* C30: under every interleaving of connect, disconnect and RPC calls, at  *)
(* every point where a coroutine can be suspended is_connected is true     *)
(* exactly when a session is held; a connect that finds a session leaves   *)
(* it in place; and an RPC call made while no session is held raises and   *)
(* sends nothing.                                                          *)
C30_ConnectedIffSession ==
    /\ connected <=> session # 0
    /\ \A t \in Tasks :
         /\ (tasks[t].last = "connect" /\ tasks[t].before # 0)
                => tasks[t].after = tasks[t].before
         /\ (tasks[t].last = "rpc" /\ tasks[t].before = 0) => tasks[t].outcome = "raised"

\* a disconnect is suspended closing the session, a connect has run while
\* a disconnect was suspended and found the session, and an RPC call has
\* been made with no session
C30_Witness ==
    /\ \E t \in Tasks : tasks[t].pc = "closing"
    /\ \E t \in Tasks :
         /\ tasks[t].last = "connect" /\ tasks[t].during
         /\ tasks[t].before # 0
    /\ \E t \in Tasks : tasks[t].last = "rpc" /\ tasks[t].outcome = "raised"

====
